---- MODULE Spec2Model ----
(***************************************************************************)
(* Model of the payroll backend of hrms-client-ready                       *)
(* (backend-tally-dashboard/excel_data).  One tenant's rows are modelled:  *)
(* PayrollPeriod, CalculatedSalary and AdvanceLedger, with the request     *)
(* handlers of views/payroll.py as actions.  Ledger and salary amounts are *)
(* whole rupees (the code uses Decimal for the ledger, so integer          *)
(* arithmetic is exact); the calculation endpoints work in paise.          *)
(***************************************************************************)
EXTENDS Integers, Sequences, FiniteSets, TLC

(***************************************************************************)
(* Bounds of the model                                                     *)
(***************************************************************************)
\* largest CalculatedSalary primary key the model allocates
MaxSalaryId == 3
\* longest payroll_entries / entries list of a request
MaxEntries == 2

Employees == {"E1", "E2"}

\* sort key of employee_id in ORDER BY employee_id
EmpRank(e) == IF e = "E1" THEN 1 ELSE 2

NoDate == "None"
\* timezone.now().date()
Today == "2025-01-31"
\* payment_date values a request may carry: the field absent, or the day's
\* date as 'YYYY-MM-DD'
PaymentDateInputs == {NoDate, "2025-01-31"}

VARIABLES
    periods,        \* set of PayrollPeriod rows
    salaries,       \* set of CalculatedSalary rows
    advances,       \* set of AdvanceLedger rows
    nextSalaryId,   \* next CalculatedSalary primary key
    nextPeriodId,   \* next PayrollPeriod primary key
    last,           \* the last request handled and its response
    tx,             \* the open transaction of a step-wise save_payroll_period_direct
    calc,           \* inputs and outputs of the calculation endpoints
    cache,          \* the tenant's entries in the Django cache, and the backend's state
    tenant,         \* the Tenant row, the Tenant instances of the requests, the IST day
    profile,        \* an EmployeeProfile instance and its row
    mail,           \* the email rate limiter: cache entries, clock, callers, emails sent
    users,          \* CustomUser and UserInvitation rows of the tenants
    otps            \* PasswordResetOTP rows, the passwords and the reset requests

\* the state outside the payroll tables
others == <<profile, mail, users, otps>>

\* the payroll tables, the calculation, the cache and the tenant
payroll == <<periods, salaries, advances, nextSalaryId, nextPeriodId, last, tx, calc, cache, tenant>>

vars == <<periods, salaries, advances, nextSalaryId, nextPeriodId, last, tx, calc, cache, tenant, others>>

(***************************************************************************)
(* Small helpers                                                           *)
(***************************************************************************)
RECURSIVE SumOver(_, _)
\* Σ f[x] for x in S (Python sum / += over a collection)
SumOver(S, f) ==
    IF S = {} THEN 0
    ELSE LET x == CHOOSE y \in S : TRUE IN f[x] + SumOver(S \ {x}, f)

Range(s) == {s[i] : i \in 1..Len(s)}

\* all orderings of a finite set as sequences
Perms(S) ==
    {f \in [1..Cardinality(S) -> S] : \A i, j \in 1..Cardinality(S) : i # j => f[i] # f[j]}

RECURSIVE SelectEmp(_, _)
\* sub-list of the advances of one employee, order kept
SelectEmp(seq, e) ==
    IF seq = <<>> THEN <<>>
    ELSE IF Head(seq).employee_id = e THEN <<Head(seq)>> \o SelectEmp(Tail(seq), e)
         ELSE SelectEmp(Tail(seq), e)

NoRequest ==
    [op |-> "none", status |-> 0, period |-> 0, mark_as_paid |-> FALSE,
     named_paid |-> FALSE, deductions |-> [e \in Employees |-> 0]]

NoTx == [pc |-> "idle"]
NoCalc == [op |-> "none"]

(***************************************************************************)
(* The cache: keys holds the tenant's entries that are present             *)
(* (payroll_overview_<tenant>, frontend_charts_<tenant>_*,                 *)
(* months_with_attendance_<tenant>); down is TRUE while the backend is     *)
(* unreachable and every cache call raises.                                *)
(***************************************************************************)
CacheEntries == {"payroll_overview", "frontend_charts", "months_with_attendance"}

\* nothing cached, backend reachable
NoCache == [keys |-> {}, down |-> FALSE]

\* the database connections of two requests that run at the same time
Conns == {"A", "B"}
Other(c) == IF c = "A" THEN "B" ELSE "A"

\* no Tenant instance loaded
NoInstance == [loaded |-> FALSE]

\* the Tenant row on IST day `day` with `credits` credits, last saved on
\* that day; inst[c] is the Tenant instance of the request on connection c;
\* deducted counts the credits deduct_daily_credit took off on the current
\* day and called records that it was called on that day while the row had
\* credits
NewTenant(day, credits) ==
    [row |-> [credits |-> credits, is_active |-> credits > 0, updated_at |-> day,
              auto_calculate_payroll |-> FALSE],
     day |-> day,
     inst |-> [c \in Conns |-> NoInstance],
     deducted |-> 0,
     called |-> FALSE]

NoTenant == NewTenant(1, 1)

\* an EmployeeProfile with the field defaults: shift 09:00 to 18:00, no
\* salary, ot_charge_per_hour null (the empty set; a value v is {v});
\* given is the ot_charge_per_hour the last save was called with
NoProfile ==
    [basic_salary |-> 0, shift |-> <<9, 18>>, ot_charge_per_hour |-> {},
     given |-> {}, saves |-> 0]

\* no address has been sent anything, no caller is in a check-and-send
NoMail ==
    [now |-> 0, entries |-> {}, log |-> <<>>,
     pc |-> [c \in Conns |-> [at |-> "idle", checked |-> FALSE]]]

\* no user and no invitation
NoUsers ==
    [tenants |-> {}, rows |-> {}, tokens |-> {},
     pc |-> [c \in Conns |-> [at |-> "idle"]]]

\* no reset has been requested
NoOtps == [rows |-> {}, nextId |-> 1, now |-> 0, passwords |-> {}]

InitOthers ==
    /\ profile = NoProfile
    /\ mail = NoMail
    /\ users = NoUsers
    /\ otps = NoOtps

\* cache.delete(key) / cache.delete_pattern(pattern) on a reachable backend
CacheDelete(c, entries) == [c EXCEPT !.keys = @ \ entries]

\* cache_service.invalidate_payroll_payment_caches and
\* invalidate_payroll_caches_comprehensive: every payroll entry of the
\* tenant is deleted; a failure is caught and reported in the result
InvalidatePayrollCaches(c) == IF c.down THEN c ELSE CacheDelete(c, CacheEntries)

(***************************************************************************)
(* AdvanceLedger repayment (mark_salary_paid, bulk_update_payroll_period)  *)
(***************************************************************************)
OpenStatuses == {"PENDING", "PARTIALLY_PAID"}

\* status__in=['PENDING','PARTIALLY_PAID'] for the employees of the deductions
OpenAdvances(advs, emps) ==
    {a \in advs : a.employee_id \in emps /\ a.status \in OpenStatuses}

\* faulty variant: ORDER BY employee_id, -advance_date (newest first)
AdvanceOrderingsNewestFirst(S) ==
    {f \in Perms(S) : \A i, j \in 1..Cardinality(S) :
        i < j => \/ EmpRank(f[i].employee_id) < EmpRank(f[j].employee_id)
                 \/ /\ f[i].employee_id = f[j].employee_id
                    /\ f[i].advance_date >= f[j].advance_date}

\* .order_by('employee_id', 'advance_date'): every order the database may
\* return; rows that tie on both keys come in any order
AdvanceOrderings(S) ==
    {f \in Perms(S) : \A i, j \in 1..Cardinality(S) :
        i < j => \/ EmpRank(f[i].employee_id) < EmpRank(f[j].employee_id)
                 \/ /\ f[i].employee_id = f[j].employee_id
                    /\ f[i].advance_date <= f[j].advance_date}

RECURSIVE RepayLoopNoCap(_, _)
\* faulty variant: the whole remaining deduction is subtracted from every entry met
RepayLoopNoCap(employee_advances, remaining_deduction) ==
    IF employee_advances = <<>> \/ remaining_deduction <= 0 THEN {}
    ELSE LET advance == Head(employee_advances)
             current_balance == advance.remaining_balance
         IN  {[advance EXCEPT !.remaining_balance = @ - remaining_deduction,
                              !.status = IF current_balance <= remaining_deduction
                                         THEN "REPAID" ELSE "PARTIALLY_PAID"]}
             \cup RepayLoopNoCap(Tail(employee_advances),
                                 IF current_balance <= remaining_deduction
                                 THEN remaining_deduction - current_balance ELSE 0)

RECURSIVE RepayLoopAdds(_, _)
\* faulty variant: the partial repayment is added to the remaining balance
RepayLoopAdds(employee_advances, remaining_deduction) ==
    IF employee_advances = <<>> \/ remaining_deduction <= 0 THEN {}
    ELSE LET advance == Head(employee_advances)
             current_balance == advance.remaining_balance
         IN  IF current_balance <= remaining_deduction
             THEN {[advance EXCEPT !.status = "REPAID", !.remaining_balance = 0]}
                  \cup RepayLoopAdds(Tail(employee_advances),
                                           remaining_deduction - current_balance)
             ELSE {[advance EXCEPT !.remaining_balance = @ + remaining_deduction,
                                   !.status = "PARTIALLY_PAID"]}

RECURSIVE RepayLoop(_, _)
\* for advance in employee_advances: ... ; the set of advance rows changed
RepayLoop(employee_advances, remaining_deduction) ==
    IF employee_advances = <<>> \/ remaining_deduction <= 0 THEN {}
    ELSE LET advance == Head(employee_advances)
             current_balance == advance.remaining_balance
         IN  IF current_balance <= remaining_deduction
             THEN {[advance EXCEPT !.status = "REPAID", !.remaining_balance = 0]}
                  \cup RepayLoop(Tail(employee_advances), remaining_deduction - current_balance)
             ELSE {[advance EXCEPT !.remaining_balance = @ - remaining_deduction,
                                   !.status = "PARTIALLY_PAID"]}

\* the two AdvanceLedger.objects.bulk_update calls: rows replaced by primary key
BulkUpdateAdvances(advs, changed) ==
    {a \in advs : \A c \in changed : c.id # a.id} \cup changed

\* ledger after the deductions (employee -> amount, 0: none) were processed
\* along the queryset order `ordered`
ProcessAdvanceDeductions(advs, ordered, deductions) ==
    BulkUpdateAdvances(advs,
        UNION {RepayLoop(SelectEmp(ordered, e), deductions[e]) :
               e \in {x \in Employees : deductions[x] > 0}})

(***************************************************************************)
(* mark_salary_paid                                                        *)
(***************************************************************************)
\* faulty variant: the deductions are collected whatever mark_as_paid is
EmployeeAdvanceDeductionsAlways(calculated_salaries, mark_as_paid) ==
    [e \in Employees |->
        LET S == {s \in calculated_salaries :
                     s.employee_id = e /\ s.advance_deduction_amount > 0}
        IN  SumOver(S, [s \in S |-> s.advance_deduction_amount])]

\* employee_advance_deductions: per employee the sum of the positive
\* advance_deduction_amount of the selected salaries (0: no key)
EmployeeAdvanceDeductions(calculated_salaries, mark_as_paid) ==
    [e \in Employees |->
        IF mark_as_paid
        THEN LET S == {s \in calculated_salaries :
                          s.employee_id = e /\ s.advance_deduction_amount > 0}
             IN  SumOver(S, [s \in S |-> s.advance_deduction_amount])
        ELSE 0]

\* CalculatedSalary.objects.filter(tenant=tenant, id__in=salary_ids)
SelectSalaries(rows, salary_ids) == {s \in rows : s.id \in salary_ids}

\* salary.is_paid = mark_as_paid; salary.payment_date = parsed_date | None
MarkRows(rows, chosen, mark_as_paid, parsed_date) ==
    {IF s \in chosen
     THEN [s EXCEPT !.is_paid = mark_as_paid,
                    !.payment_date = IF mark_as_paid THEN parsed_date ELSE NoDate]
     ELSE s : s \in rows}

mark_salary_paid(salary_ids, payment_date, mark_as_paid) ==
    LET parsed_date == IF mark_as_paid
                       THEN (IF payment_date # NoDate THEN payment_date ELSE Today)
                       ELSE NoDate
    IN  /\ UNCHANGED <<periods, nextSalaryId, nextPeriodId, tx, calc, tenant, others>>
        /\ \E calculated_salaries \in {SelectSalaries(salaries, salary_ids)} :
           \E deductions \in {EmployeeAdvanceDeductions(calculated_salaries, mark_as_paid)} :
           \* named_paid: the request names a salary that is already paid
           \E req \in {[NoRequest EXCEPT !.op = "mark_salary_paid",
                                         !.mark_as_paid = mark_as_paid,
                                         !.named_paid = \E s \in calculated_salaries : s.is_paid]} :
              IF salary_ids = {}
              THEN /\ last' = [req EXCEPT !.status = 400]
                   /\ UNCHANGED <<salaries, advances, cache>>
              ELSE IF calculated_salaries = {}
              THEN /\ last' = [req EXCEPT !.status = 404]
                   /\ UNCHANGED <<salaries, advances, cache>>
              ELSE /\ cache' = InvalidatePayrollCaches(cache)
                   /\ salaries' = MarkRows(salaries, calculated_salaries, mark_as_paid, parsed_date)
                   /\ \E ordered \in AdvanceOrderings(
                             OpenAdvances(advances, {e \in Employees : deductions[e] > 0})) :
                          advances' = ProcessAdvanceDeductions(advances, ordered, deductions)
                   /\ last' = [req EXCEPT !.status = 200, !.deductions = deductions]

(***************************************************************************)
(* save_payroll_period_direct                                              *)
(***************************************************************************)
Years == {2025}
\* forms of `month` a request may carry
MonthInputs == {"1", "February", "FEB"}

\* month.isdigit() -> calendar.month_name[int(month)].upper(); otherwise
\* list(calendar.month_name).index(month.title()), a ValueError for a name
\* calendar.month_name does not hold (such as a short name)
ParseMonthName(month) ==
    CASE month = "1" -> "JANUARY"
      [] month = "2" -> "FEBRUARY"
      [] month = "January" -> "JANUARY"
      [] month = "February" -> "FEBRUARY"
      [] OTHER -> "ValueError"

\* SalaryCalculationService._normalize_month_to_short
NormalizeMonthToShort(month_name) ==
    CASE month_name = "JANUARY" -> "JAN"
      [] month_name = "FEBRUARY" -> "FEB"
      [] OTHER -> month_name

\* payroll entries a client may send (employee_id, the monetary fields and
\* is_paid; the fields the claims do not read are left out)
Entry(e, gross, ot, late, tds, adv, net, paid) ==
    [employee_id |-> e, gross_salary |-> gross, ot_charges |-> ot, late_deduction |-> late,
     tds_amount |-> tds, advance_deduction |-> adv, net_salary |-> net, is_paid |-> paid]

PayloadEntries ==
    {Entry("E1", 1000, 100, 20, 50, 120, 910, FALSE),
     Entry("E1", 900, 0, 0, 0, 50, 850, TRUE),
     Entry("E2", 800, 0, 0, 0, 0, 800, FALSE)}

\* non-empty lists of at most MaxEntries payroll entries
Payloads == UNION {[1..n -> PayloadEntries] : n \in 1..MaxEntries}

NoRow == [id |-> 0]

\* the PayrollPeriod of (year, month), 0 when there is none
PeriodIdOf(ps, year, month) ==
    IF \E p \in ps : p.year = year /\ p.month = month
    THEN (CHOOSE p \in ps : p.year = year /\ p.month = month).id
    ELSE 0

\* PayrollPeriod.objects.get_or_create(tenant, year, month, defaults=...)
GetOrCreatePeriod(ps, year, month, new_id) ==
    IF PeriodIdOf(ps, year, month) # 0 THEN ps
    ELSE ps \cup {[id |-> new_id, year |-> year, month |-> month,
                   data_source |-> "FRONTEND", is_locked |-> FALSE]}

\* existing_map = {cs.employee_id: cs for cs in existing_list}
ExistingMap(rows, period_id) ==
    [e \in Employees |->
        IF \E cs \in rows : cs.payroll_period = period_id /\ cs.employee_id = e
        THEN CHOOSE cs \in rows : cs.payroll_period = period_id /\ cs.employee_id = e
        ELSE NoRow]

\* the assignments cs.<field> = ... of the update branch
UpdatedRow(cs, entry) ==
    [cs EXCEPT !.salary_for_present_days = entry.gross_salary,
               !.ot_charges = entry.ot_charges,
               !.late_deduction = entry.late_deduction,
               !.gross_salary = entry.gross_salary + entry.ot_charges - entry.late_deduction,
               !.tds_amount = entry.tds_amount,
               !.salary_after_tds = entry.gross_salary + entry.ot_charges
                                    - entry.late_deduction - entry.tds_amount,
               !.advance_deduction_amount = entry.advance_deduction,
               !.net_payable = entry.net_salary,
               !.is_paid = entry.is_paid]

\* CalculatedSalary(...) of the create branch; payment_date keeps its default
CreatedRow(new_id, period_id, entry) ==
    [id |-> new_id, payroll_period |-> period_id, employee_id |-> entry.employee_id,
     salary_for_present_days |-> entry.gross_salary,
     ot_charges |-> entry.ot_charges,
     late_deduction |-> entry.late_deduction,
     gross_salary |-> entry.gross_salary + entry.ot_charges - entry.late_deduction,
     tds_amount |-> entry.tds_amount,
     salary_after_tds |-> entry.gross_salary + entry.ot_charges
                          - entry.late_deduction - entry.tds_amount,
     advance_deduction_amount |-> entry.advance_deduction,
     net_payable |-> entry.net_salary,
     is_paid |-> entry.is_paid,
     payment_date |-> NoDate]

\* payload_emp_ids
PayloadEmpIds(payroll_entries) == {payroll_entries[i].employee_id : i \in 1..Len(payroll_entries)}

\* to_update: the existing objects, each carrying the fields of the last
\* payload entry of its employee (every entry of an employee overwrites the
\* same object)
ToUpdate(existing_map, payroll_entries) ==
    {LET e == existing_map[emp]
         k == CHOOSE i \in 1..Len(payroll_entries) :
                  /\ payroll_entries[i].employee_id = emp
                  /\ \A j \in 1..Len(payroll_entries) :
                         payroll_entries[j].employee_id = emp => j <= i
     IN  UpdatedRow(e, payroll_entries[k]) :
     emp \in {x \in PayloadEmpIds(payroll_entries) : existing_map[x] # NoRow}}

RECURSIVE ToCreate(_, _, _, _)
\* to_create: one new object per payload entry whose employee has no row yet
\* (the map is not extended, so a repeated employee_id yields two objects)
ToCreate(existing_map, payroll_entries, period_id, new_id) ==
    IF payroll_entries = <<>> THEN <<>>
    ELSE IF existing_map[Head(payroll_entries).employee_id] # NoRow
         THEN ToCreate(existing_map, Tail(payroll_entries), period_id, new_id)
         ELSE <<CreatedRow(new_id, period_id, Head(payroll_entries))>>
              \o ToCreate(existing_map, Tail(payroll_entries), period_id, new_id + 1)

\* faulty variant: no row is deleted
DeleteNothing(rows, period_id, existing_map, payroll_entries) == rows

\* missing_emp_ids and the filtered delete()
DeleteMissing(rows, period_id, existing_map, payroll_entries) ==
    LET missing_emp_ids == {e \in Employees : existing_map[e] # NoRow
                                              /\ e \notin PayloadEmpIds(payroll_entries)}
    IN  {cs \in rows : ~(cs.payroll_period = period_id /\ cs.employee_id \in missing_emp_ids)}

\* CalculatedSalary.objects.bulk_update(to_update, fields=[...]): rows are
\* matched by primary key; a row that no longer exists is not re-created
BulkUpdateSalaries(rows, to_update) ==
    {IF \E u \in to_update : u.id = cs.id
     THEN CHOOSE u \in to_update : u.id = cs.id
     ELSE cs : cs \in rows}

\* faulty variant: no unique constraint on (payroll_period, employee_id)
NoUniqueViolation(rows, to_create) == FALSE

\* unique (payroll_period, employee_id) of CalculatedSalary: the INSERT of
\* bulk_create raises IntegrityError when it is violated
UniqueViolation(rows, to_create) ==
    \/ \E i, j \in 1..Len(to_create) :
          /\ i # j
          /\ to_create[i].payroll_period = to_create[j].payroll_period
          /\ to_create[i].employee_id = to_create[j].employee_id
    \/ \E i \in 1..Len(to_create) : \E cs \in rows :
          /\ cs.payroll_period = to_create[i].payroll_period
          /\ cs.employee_id = to_create[i].employee_id

\* CalculatedSalary.objects.bulk_create(to_create)
BulkCreateSalaries(rows, to_create) == rows \cup Range(to_create)

\* the writes of the body of `with transaction.atomic():` in their order:
\* get_or_create, fetch existing, build, delete-missing, bulk_update, and the
\* objects bulk_create is to insert
SaveWrites(ps, rows, next_sid, next_pid, year, month_normalized, payroll_entries) ==
    LET ps1 == GetOrCreatePeriod(ps, year, month_normalized, next_pid)
        period_id == PeriodIdOf(ps1, year, month_normalized)
        existing_map == ExistingMap(rows, period_id)
    IN  [periods |-> ps1,
         period |-> period_id,
         salaries |-> BulkUpdateSalaries(
                          DeleteMissing(rows, period_id, existing_map, payroll_entries),
                          ToUpdate(existing_map, payroll_entries)),
         to_create |-> ToCreate(existing_map, payroll_entries, period_id, next_sid),
         nextPeriodId |-> IF ps1 = ps THEN next_pid ELSE next_pid + 1]

\* leaving `with transaction.atomic():` with the writes w: bulk_create
\* commits them, or its IntegrityError rolls every write back (the period
\* included) and the handler answers 500
CommitOrRollback(ps, rows, next_sid, next_pid, w) ==
    IF UniqueViolation(w.salaries, w.to_create)
    THEN [status |-> 500, period |-> 0, periods |-> ps, salaries |-> rows,
          nextSalaryId |-> next_sid, nextPeriodId |-> next_pid]
    ELSE [status |-> 200, period |-> w.period, periods |-> w.periods,
          salaries |-> BulkCreateSalaries(w.salaries, w.to_create),
          nextSalaryId |-> next_sid + Len(w.to_create),
          nextPeriodId |-> w.nextPeriodId]

\* what a save_payroll_period_direct request that passed validation leaves
\* in the database, and its status
SaveOutcome(ps, rows, next_sid, next_pid, year, month_normalized, payroll_entries) ==
    CommitOrRollback(ps, rows, next_sid, next_pid,
        SaveWrites(ps, rows, next_sid, next_pid, year, month_normalized, payroll_entries))

save_payroll_period_direct(year, month, payroll_entries) ==
    LET month_name == ParseMonthName(month)
        month_normalized == NormalizeMonthToShort(month_name)
        req == [NoRequest EXCEPT !.op = "save_payroll_period_direct"]
    IN  /\ UNCHANGED <<advances, tx, calc, tenant, others>>
        /\ IF payroll_entries = <<>> \/ month_name = "ValueError"
           THEN /\ last' = [req EXCEPT !.status = 400]
                /\ UNCHANGED <<periods, salaries, nextSalaryId, nextPeriodId, cache>>
           ELSE \E out \in {SaveOutcome(periods, salaries, nextSalaryId, nextPeriodId,
                                        year, month_normalized, payroll_entries)} :
                /\ out.nextSalaryId <= MaxSalaryId + 1
                /\ periods' = out.periods
                /\ salaries' = out.salaries
                /\ nextSalaryId' = out.nextSalaryId
                /\ nextPeriodId' = out.nextPeriodId
                /\ last' = [req EXCEPT !.status = out.status, !.period = out.period]
                /\ cache' = IF out.status = 200 THEN InvalidatePayrollCaches(cache) ELSE cache

(***************************************************************************)
(* lock_payroll_period, calculate_payroll                                  *)
(***************************************************************************)
\* SalaryCalculationService.lock_payroll_period(tenant, period_id)
LockPeriod(ps, period_id) ==
    {IF p.id = period_id THEN [p EXCEPT !.is_locked = TRUE] ELSE p : p \in ps}

lock_payroll_period(period_id) ==
    LET req == [NoRequest EXCEPT !.op = "lock_payroll_period", !.period = period_id]
    IN  /\ UNCHANGED <<salaries, advances, nextSalaryId, nextPeriodId, tx, calc, tenant, others>>
        /\ IF \E p \in periods : p.id = period_id
           THEN /\ periods' = LockPeriod(periods, period_id)
                /\ IF cache.down
                   THEN \* cache.delete raises: `except Exception` answers 500
                        /\ last' = [req EXCEPT !.status = 500]
                        /\ UNCHANGED cache
                   ELSE /\ last' = [req EXCEPT !.status = 200]
                        /\ cache' = CacheDelete(cache, {"payroll_overview"})
           ELSE /\ UNCHANGED <<periods, cache>>
                /\ last' = [req EXCEPT !.status = 404]

\* calculate_payroll called with a period_id: the `if not period_id` branch is
\* skipped and the first return reads `results`, `month`, `year`, which are
\* unbound: the NameError is answered with 500 and nothing is written
calculate_payroll(period_id) ==
    /\ last' = [NoRequest EXCEPT !.op = "calculate_payroll", !.period = period_id,
                                 !.status = 500]
    /\ UNCHANGED <<periods, salaries, advances, nextSalaryId, nextPeriodId, tx, calc, cache, tenant, others>>

(***************************************************************************)
(* bulk_update_payroll_period                                              *)
(***************************************************************************)
\* an element of `entries`: employee_id ("" when the key is absent),
\* optionally is_paid, optionally advance_deduction_amount (amount_valid is
\* FALSE for a value Decimal() rejects)
BulkEntry(e, has_is_paid, paid, has_amount, amount_valid, amount) ==
    [employee_id |-> e, has_is_paid |-> has_is_paid, is_paid |-> paid,
     has_amount |-> has_amount, amount_valid |-> amount_valid,
     advance_deduction_amount |-> amount]

BulkEntries ==
    {BulkEntry("E1", TRUE, TRUE, TRUE, TRUE, 120),
     BulkEntry("E1", FALSE, FALSE, TRUE, TRUE, 50),
     BulkEntry("E1", TRUE, FALSE, FALSE, TRUE, 0),
     BulkEntry("E2", TRUE, TRUE, TRUE, FALSE, 0)}

BulkPayloads == UNION {[1..n -> BulkEntries] : n \in 1..MaxEntries}

\* salary_map = {s.employee_id: s for s in CalculatedSalary.objects.filter(
\*     tenant, payroll_period_id=period_id, employee_id__in=employee_ids)}
SalaryMap(rows, period_id, employee_ids) ==
    [e \in Employees |-> IF e \in employee_ids THEN ExistingMap(rows, period_id)[e] ELSE NoRow]

RECURSIVE BulkLoop(_, _, _, _)
\* `for entry in entries:`; the loop state is the in-memory salary objects,
\* the employees whose object was appended to salaries_to_update, and
\* advance_deductions_processed (0: no key)
BulkLoop(entries, salary_map, appended, processed) ==
    IF entries = <<>>
    THEN [salary_map |-> salary_map, appended |-> appended, processed |-> processed]
    ELSE LET entry == Head(entries)
             employee_id == entry.employee_id
         IN  IF employee_id = "" \/ salary_map[employee_id] = NoRow
             THEN BulkLoop(Tail(entries), salary_map, appended, processed)
             ELSE LET s0 == salary_map[employee_id]
                      s1 == IF entry.has_is_paid
                            THEN [s0 EXCEPT !.is_paid = entry.is_paid,
                                            !.payment_date = IF entry.is_paid THEN Today
                                                             ELSE NoDate]
                            ELSE s0
                      new_amount == entry.advance_deduction_amount
                      s2 == IF entry.has_amount /\ entry.amount_valid
                            THEN [s1 EXCEPT !.advance_deduction_amount = new_amount,
                                            !.net_payable = s1.salary_after_tds - new_amount]
                            ELSE s1
                 IN  IF entry.has_amount /\ ~entry.amount_valid
                     THEN \* except (...): continue, the object stays modified
                          BulkLoop(Tail(entries),
                                   [salary_map EXCEPT ![employee_id] = s1],
                                   appended, processed)
                     ELSE BulkLoop(Tail(entries),
                                   [salary_map EXCEPT ![employee_id] = s2],
                                   appended \cup {employee_id},
                                   IF entry.has_amount /\ s2.is_paid /\ new_amount > 0
                                   THEN [processed EXCEPT ![employee_id] = new_amount]
                                   ELSE processed)

bulk_update_payroll_period(period_id, entries) ==
    LET req == [NoRequest EXCEPT !.op = "bulk_update_payroll_period", !.period = period_id]
        employee_ids == {entries[i].employee_id : i \in 1..Len(entries)} \ {""}
    IN  /\ UNCHANGED <<periods, nextSalaryId, nextPeriodId, tx, calc, tenant, others>>
        /\ \E salary_map \in {SalaryMap(salaries, period_id, employee_ids)} :
           \E loop \in {BulkLoop(entries, salary_map, {}, [e \in Employees |-> 0])} :
           \E salaries_to_update \in {{loop.salary_map[e] : e \in loop.appended}} :
              IF entries = <<>>
              THEN /\ last' = [req EXCEPT !.status = 400]
                   /\ UNCHANGED <<salaries, advances, cache>>
              ELSE IF ~\E p \in periods : p.id = period_id
              THEN /\ last' = [req EXCEPT !.status = 404]
                   /\ UNCHANGED <<salaries, advances, cache>>
              ELSE IF employee_ids = {}
              THEN /\ last' = [req EXCEPT !.status = 400]
                   /\ UNCHANGED <<salaries, advances, cache>>
              ELSE IF \A e \in Employees : salary_map[e] = NoRow
              THEN /\ last' = [req EXCEPT !.status = 404]
                   /\ UNCHANGED <<salaries, advances, cache>>
              ELSE IF salaries_to_update = {}
              THEN /\ last' = [req EXCEPT !.status = 400]
                   /\ UNCHANGED <<salaries, advances, cache>>
              ELSE /\ salaries' = BulkUpdateSalaries(salaries, salaries_to_update)
                   /\ \E ordered \in AdvanceOrderings(
                             OpenAdvances(advances, {e \in Employees : loop.processed[e] > 0})) :
                          advances' = ProcessAdvanceDeductions(advances, ordered, loop.processed)
                   /\ IF cache.down
                      THEN \* cache.delete raises after the transaction committed
                           /\ last' = [req EXCEPT !.status = 500]
                           /\ UNCHANGED cache
                      ELSE /\ last' = [req EXCEPT !.status = 200, !.deductions = loop.processed]
                           /\ cache' = CacheDelete(cache, {"payroll_overview"})

(***************************************************************************)
(* Specifications                                                          *)
(***************************************************************************)
AdvanceDates == {1, 2}

\* AdvanceLedger.objects.create(..., amount=amount, status='PENDING'): the
\* whole amount is outstanding
NewAdvance(id, e, advance_date, amount) ==
    [id |-> id, employee_id |-> e, advance_date |-> advance_date, amount |-> amount,
     remaining_balance |-> amount, status |-> "PENDING"]

\* ledgers the paid-status specification starts from: two advances of E1 in
\* either date order or on the same day, one advance of E2
InitialLedgers ==
    {{NewAdvance(1, "E1", d1, 100), NewAdvance(2, "E1", d2, 50), NewAdvance(3, "E2", 1, 50)} :
        d1 \in AdvanceDates, d2 \in AdvanceDates}

NewPeriod(id, year, month) ==
    [id |-> id, year |-> year, month |-> month, data_source |-> "FRONTEND", is_locked |-> FALSE]

\* the database after JAN was saved for E1 and E2 and FEB for E1
Init ==
    /\ periods = {NewPeriod(1, 2025, "JAN"), NewPeriod(2, 2025, "FEB")}
    /\ salaries = {CreatedRow(1, 1, Entry("E1", 1000, 100, 20, 50, 120, 910, FALSE)),
                   CreatedRow(2, 1, Entry("E2", 800, 0, 0, 0, 0, 800, FALSE)),
                   CreatedRow(3, 2, Entry("E1", 900, 0, 0, 0, 50, 850, FALSE))}
    /\ advances \in InitialLedgers
    /\ nextSalaryId = 4
    /\ nextPeriodId = 3
    /\ last = NoRequest
    /\ tx = NoTx
    /\ calc = NoCalc
    /\ cache = NoCache
    /\ tenant = NoTenant
    /\ InitOthers

\* ids a request may name: those of the rows and one that no row has
PeriodIds == {p.id : p \in periods} \cup {nextPeriodId}
SalaryIds == {s.id : s \in salaries} \cup {nextSalaryId}

Next ==
    \/ \E salary_ids \in SUBSET SalaryIds, payment_date \in PaymentDateInputs :
          mark_salary_paid(salary_ids, payment_date, TRUE)
    \/ \E salary_ids \in SUBSET SalaryIds : mark_salary_paid(salary_ids, NoDate, FALSE)
    \/ \E period_id \in PeriodIds, entries \in BulkPayloads \cup {<<>>} :
          bulk_update_payroll_period(period_id, entries)

Spec == Init /\ [][Next]_vars

\* an empty database, filled by save_payroll_period_direct
InitSave ==
    /\ periods = {}
    /\ salaries = {}
    /\ advances = {}
    /\ nextSalaryId = 1
    /\ nextPeriodId = 1
    /\ last = NoRequest
    /\ tx = NoTx
    /\ calc = NoCalc
    /\ cache = NoCache
    /\ tenant = NoTenant
    /\ InitOthers

NextSave ==
    \/ \E year \in Years, month \in MonthInputs, payroll_entries \in Payloads \cup {<<>>} :
          save_payroll_period_direct(year, month, payroll_entries)
    \/ \E period_id \in PeriodIds : lock_payroll_period(period_id)
    \/ \E period_id \in PeriodIds : calculate_payroll(period_id)

SpecSave == InitSave /\ [][NextSave]_vars

(***************************************************************************)
(* Properties of the ledger repayment                                      *)
(***************************************************************************)
\* the AdvanceLedger row with primary key id in advs
AdvanceById(advs, id) == CHOOSE a \in advs : a.id = id

IsOpen(a) == a.status \in OpenStatuses

\* O: the sum of the open remaining_balance values of employee e
OpenBalance(advs, e) ==
    LET S == {a \in advs : a.employee_id = e /\ IsOpen(a)}
    IN  SumOver(S, [a \in S |-> a.remaining_balance])

\* what the step took off the entries of e that were open before it
Reduction(e) ==
    LET S == {a \in advances : a.employee_id = e /\ IsOpen(a)}
    IN  SumOver(S, [a \in S |-> a.remaining_balance - AdvanceById(advances', a.id).remaining_balance])

Min(a, b) == IF a <= b THEN a ELSE b

MarkedPaidStep ==
    last'.op = "mark_salary_paid" /\ last'.status = 200 /\ last'.mark_as_paid

RepaymentStep ==
    last'.op \in {"mark_salary_paid", "bulk_update_payroll_period"} /\ last'.status = 200

\* C1 as a step property
FifoStep ==
    MarkedPaidStep =>
        /\ \A a, b \in advances :
              ( /\ a.employee_id = b.employee_id
                /\ IsOpen(a) /\ IsOpen(b)
                /\ a.advance_date < b.advance_date
                /\ AdvanceById(advances', b.id).remaining_balance < b.remaining_balance )
              => /\ AdvanceById(advances', a.id).remaining_balance = 0
                 /\ AdvanceById(advances', a.id).status = "REPAID"
        /\ \A a \in advances :
              LET n == AdvanceById(advances', a.id)
              IN  n # a => /\ IsOpen(a)
                           /\ last'.deductions[a.employee_id] > 0
                           /\ n.remaining_balance < a.remaining_balance
                           /\ IF n.remaining_balance = 0 THEN n.status = "REPAID"
                              ELSE n.status = "PARTIALLY_PAID"
        /\ \A e \in Employees :
              Cardinality({a \in advances : /\ a.employee_id = e
                                            /\ AdvanceById(advances', a.id) # a
                                            /\ AdvanceById(advances', a.id).remaining_balance > 0}) <= 1

\* C1: mark_salary_paid (mark_as_paid=true) consumes an employee's open
\* AdvanceLedger entries in ascending advance_date order: an entry is reduced
\* only when every older open entry of the employee ends with balance 0 and
\* status REPAID; a changed entry ends REPAID with balance 0 or
\* PARTIALLY_PAID with a smaller positive balance, and at most one entry per
\* employee ends the second way.
C1_FifoRepayment == [][FifoStep]_vars

\* C1 witness: a deduction of 120 has met balances 100 (older) and 50
\* (newer): the older entry is REPAID with 0, the newer PARTIALLY_PAID with 30
C1_Witness ==
    /\ last.op = "mark_salary_paid" /\ last.status = 200 /\ last.mark_as_paid
    /\ last.deductions["E1"] = 120
    /\ \E a, b \in advances :
          /\ a.employee_id = "E1" /\ b.employee_id = "E1"
          /\ a.advance_date < b.advance_date
          /\ a.amount = 100 /\ a.remaining_balance = 0 /\ a.status = "REPAID"
          /\ b.amount = 50 /\ b.remaining_balance = 30 /\ b.status = "PARTIALLY_PAID"

AbsorbStep ==
    RepaymentStep =>
        \A e \in Employees :
            /\ Reduction(e) = Min(last'.deductions[e], OpenBalance(advances, e))
            /\ last'.deductions[e] > OpenBalance(advances, e) =>
                  \A a \in advances : (a.employee_id = e /\ IsOpen(a)) =>
                      /\ AdvanceById(advances', a.id).status = "REPAID"
                      /\ AdvanceById(advances', a.id).remaining_balance = 0

NoNegativeBalance == \A a \in advances : a.remaining_balance >= 0

\* C2: in every successful ledger-repayment run (mark_salary_paid and
\* bulk_update_payroll_period) the open balances of an employee drop by
\* min(D, O) in total, D the deduction applied and O the open balance before;
\* when D > O every entry of the employee ends REPAID with balance 0 and the
\* answer is still 200; no remaining_balance is ever negative.
C2_DeductionAbsorbed == [][AbsorbStep]_vars /\ []NoNegativeBalance

\* C2 witness: a successful run whose deduction (170) exceeded the open
\* balance (at most 150) and left every entry of E1 REPAID with 0
C2_Witness ==
    /\ last.op \in {"mark_salary_paid", "bulk_update_payroll_period"}
    /\ last.status = 200
    /\ last.deductions["E1"] = 170
    /\ \A a \in advances : a.employee_id = "E1" =>
          a.status = "REPAID" /\ a.remaining_balance = 0

StatusRank(st) == IF st = "PENDING" THEN 0 ELSE IF st = "PARTIALLY_PAID" THEN 1 ELSE 2

\* every ledger entry is still there after the step, with a balance that is
\* not larger and a status that is not earlier; a REPAID entry is the same row
MonotoneStep ==
    \A a \in advances :
        /\ \E n \in advances' : n.id = a.id
        /\ LET n == AdvanceById(advances', a.id)
           IN  /\ n.remaining_balance <= a.remaining_balance
               /\ StatusRank(n.status) >= StatusRank(a.status)
               /\ a.status = "REPAID" => n = a
               /\ [n EXCEPT !.remaining_balance = 0, !.status = "REPAID"]
                     = [a EXCEPT !.remaining_balance = 0, !.status = "REPAID"]

\* C15: under any sequence of mark_salary_paid and bulk_update_payroll_period
\* requests no AdvanceLedger entry's remaining_balance increases, its status
\* only moves forward along PENDING, PARTIALLY_PAID, REPAID, and an entry
\* that is REPAID is not modified again.
C15_LedgerMonotone == [][MonotoneStep]_vars

\* C15 witness: salary 3 (deduction 50) was paid by an earlier request,
\* which left the older entry of E1 (50) REPAID; marking salary 1 paid
\* (deduction 120) has then run over that ledger and repaid the newer entry
C15_Witness ==
    /\ last.op = "mark_salary_paid" /\ last.status = 200 /\ last.mark_as_paid
    /\ last.deductions["E1"] = 120
    /\ \E s \in salaries : s.id = 3 /\ s.is_paid
    /\ \E a, b \in advances :
          /\ a.employee_id = "E1" /\ b.employee_id = "E1"
          /\ b.advance_date < a.advance_date
          /\ b.amount = 50 /\ b.status = "REPAID" /\ b.remaining_balance = 0
          /\ a.amount = 100 /\ a.status = "REPAID" /\ a.remaining_balance = 0

\* a successful mark_salary_paid request with mark_as_paid=false
UnmarkedStep ==
    last'.op = "mark_salary_paid" /\ last'.status = 200 /\ ~last'.mark_as_paid

\* C16: mark_salary_paid with mark_as_paid=false sets is_paid=false and
\* payment_date=null on the selected salaries, changes no other salary and
\* leaves every AdvanceLedger entry as it was: the repayment made when the
\* salary was marked paid is not reversed.
C16_UnmarkKeepsLedger ==
    [][UnmarkedStep =>
        /\ advances' = advances
        /\ \E ids \in SUBSET {s.id : s \in salaries} :
              /\ ids # {}
              /\ salaries' = {IF s.id \in ids
                              THEN [s EXCEPT !.is_paid = FALSE, !.payment_date = NoDate]
                              ELSE s : s \in salaries}]_vars

\* C16 witness: salary 1 (deduction 120) was marked paid, which repaid the
\* ledger of E1, and has been unmarked: it is unpaid without a payment date
\* and the ledger still shows the repayment
C16_Witness ==
    /\ last.op = "mark_salary_paid" /\ last.status = 200 /\ ~last.mark_as_paid
    /\ last.named_paid
    /\ \A s \in salaries : ~s.is_paid /\ s.payment_date = NoDate
    /\ OpenBalance(advances, "E1") = 30

\* what has been taken off the ledger entries of employee e so far
TotalRepaid(e) ==
    LET S == {x \in advances : x.employee_id = e}
    IN  SumOver(S, [x \in S |-> x.amount - x.remaining_balance])

\* the advance deductions of the salaries of e that are paid now
PaidDeductions(e) ==
    LET S == {x \in salaries : x.employee_id = e /\ x.is_paid}
    IN  SumOver(S, [x \in S |-> x.advance_deduction_amount])

\* C27 (the claim as stated): over any sequence of mark_salary_paid and
\* bulk_update_payroll_period requests the amount taken off an employee's
\* AdvanceLedger entries never exceeds the sum of advance_deduction_amount
\* of the employee's salaries that are paid: no deduction is applied twice.
C27_DeductedAtMostOnce == \A e \in Employees : TotalRepaid(e) <= PaidDeductions(e)

\* C7 (the claim as stated): a mark_salary_paid request with
\* mark_as_paid=true that names an already paid salary is answered 400 and
\* changes no CalculatedSalary row and no AdvanceLedger entry.
C7_AlreadyPaidRejected ==
    [][(last'.op = "mark_salary_paid" /\ last'.mark_as_paid /\ last'.named_paid)
         => (last'.status = 400 /\ salaries' = salaries /\ advances' = advances)]_vars

(***************************************************************************)
(* Properties of save_payroll_period_direct                                *)
(***************************************************************************)
\* the month inputs the handler accepts
ValidMonths == {m \in MonthInputs : ParseMonthName(m) # "ValueError"}

RowsOfPeriod(rows, period_id) == {cs \in rows : cs.payroll_period = period_id}

\* what a valid request (year, month, payroll_entries) would leave, from the
\* present state
OutcomeOf(year, month, payroll_entries) ==
    SaveOutcome(periods, salaries, nextSalaryId, nextPeriodId, year,
                NormalizeMonthToShort(ParseMonthName(month)), payroll_entries)

\* the step is a successful save of exactly this request
IsSaveOf(out) ==
    /\ last'.op = "save_payroll_period_direct" /\ last'.status = 200
    /\ out.status = 200 /\ last'.period = out.period
    /\ periods' = out.periods /\ salaries' = out.salaries

\* C3 (the claim as stated): an entry-edit or recalculation request on a
\* period whose is_locked is true is answered with the state-conflict error
\* (400) and leaves the CalculatedSalary rows of the period unchanged.
C3_LockedPeriodRejects ==
    [][(/\ last'.op \in {"save_payroll_period_direct", "bulk_update_payroll_period",
                         "calculate_payroll"}
        /\ \E p \in periods : p.id = last'.period /\ p.is_locked)
       => (/\ last'.status = 400
           /\ RowsOfPeriod(salaries', last'.period) = RowsOfPeriod(salaries, last'.period))]_vars

Reconciled(rows, payroll_entries, out) ==
    /\ {cs.employee_id : cs \in RowsOfPeriod(out.salaries, out.period)}
          = PayloadEmpIds(payroll_entries)
    /\ \A cs \in RowsOfPeriod(rows, out.period) :
          IF cs.employee_id \in PayloadEmpIds(payroll_entries)
          THEN {r.id : r \in {x \in RowsOfPeriod(out.salaries, out.period) :
                                  x.employee_id = cs.employee_id}} = {cs.id}
          ELSE \A r \in out.salaries : r.id # cs.id
    /\ {cs \in out.salaries : cs.payroll_period # out.period}
          = {cs \in rows : cs.payroll_period # out.period}

\* C4: from every reachable state, a successful save_payroll_period_direct
\* with entries E leaves in the period exactly the employee_ids of E: the
\* rows of employees absent from E are gone, a row of an employee of E is
\* the same row (same primary key, no second row), and the rows of every
\* other period are untouched.
C4_Reconciliation ==
    \A year \in Years, month \in ValidMonths, payroll_entries \in Payloads :
        \E out \in {OutcomeOf(year, month, payroll_entries)} :
            out.status = 200 => Reconciled(salaries, payroll_entries, out)

\* C4 witness: {E1, E2} was saved into the first period and then {E1}: the
\* row of E2 (id 2) is deleted, the row of E1 keeps id 1
C4_Witness ==
    /\ last.op = "save_payroll_period_direct" /\ last.status = 200 /\ last.period = 1
    /\ nextSalaryId = 3
    /\ {<<cs.id, cs.employee_id>> : cs \in RowsOfPeriod(salaries, 1)} = {<<1, "E1">>}
    /\ \A cs \in salaries : cs.id # 2

C6_PaidRowsFrozen ==
    [][last'.op = "save_payroll_period_direct"
         => \A cs \in salaries : cs.is_paid => cs \in salaries']_vars

\* the last entry of its employee in the payload (the one whose values
\* the row ends with)
IsLastOfEmployee(payroll_entries, i) ==
    \A j \in 1..Len(payroll_entries) :
        payroll_entries[j].employee_id = payroll_entries[i].employee_id => j <= i

StoredAsSupplied(rows, period_id, entry) ==
    \E cs \in RowsOfPeriod(rows, period_id) :
        /\ cs.employee_id = entry.employee_id
        /\ cs.gross_salary = entry.gross_salary
        /\ cs.tds_amount = entry.tds_amount
        /\ cs.advance_deduction_amount = entry.advance_deduction
        /\ cs.net_payable = entry.net_salary

\* C9 (the claim as stated): after a successful save_payroll_period_direct
\* the row of every saved entry holds the payload's gross_salary,
\* tds_amount, advance_deduction and net_salary in gross_salary, tds_amount,
\* advance_deduction_amount and net_payable.
C9_StoredAsSupplied ==
    [][\A year \in Years, month \in ValidMonths, payroll_entries \in Payloads :
        \E out \in {OutcomeOf(year, month, payroll_entries)} :
            IsSaveOf(out) =>
                \A i \in 1..Len(payroll_entries) :
                    IsLastOfEmployee(payroll_entries, i)
                        => StoredAsSupplied(salaries', out.period, payroll_entries[i])]_vars

\* C28 (the claim as stated): in every state reached through
\* save_payroll_period_direct (and the paid-status requests) a
\* CalculatedSalary row is paid if and only if its payment_date is set.
C28_PaidIffPaymentDate == \A cs \in salaries : cs.is_paid <=> cs.payment_date # NoDate

\* C17 (the claim as stated): a calculate_payroll request that names an
\* existing PayrollPeriod by period_id is answered with success, and leaves
\* the periods as they were or with the named period locked (mode 'save');
\* a period_id that no period has is answered 404.
C17_CalculateByPeriodId ==
    [][last'.op = "calculate_payroll" =>
        IF \E p \in periods : p.id = last'.period
        THEN /\ last'.status = 200
             /\ periods' \in {periods, LockPeriod(periods, last'.period)}
        ELSE last'.status = 404]_vars

(***************************************************************************)
(* save_payroll_period_direct statement by statement.  periods and         *)
(* salaries are the committed rows, which every other connection reads;    *)
(* tx holds the request and the rows as the open transaction sees them.    *)
(***************************************************************************)
\* faulty variant: no transaction, every statement is committed as it runs
Autocommit(committed, written) == written

\* `with transaction.atomic():` a row written inside the block is not in
\* the committed rows before the block is left, and never if it raises
Isolated(committed, written) == committed

\* request validation, then entering the atomic block
save_begin(year, month, payroll_entries) ==
    LET month_name == ParseMonthName(month)
        req == [NoRequest EXCEPT !.op = "save_payroll_period_direct"]
    IN  /\ tx.pc = "idle"
        /\ UNCHANGED <<periods, salaries, advances, nextSalaryId, nextPeriodId, calc, cache, tenant, others>>
        /\ IF payroll_entries = <<>> \/ month_name = "ValueError"
           THEN /\ last' = [req EXCEPT !.status = 400]
                /\ UNCHANGED tx
           ELSE /\ OutcomeOf(year, month, payroll_entries).nextSalaryId <= MaxSalaryId + 1
                /\ last' = req
                /\ tx' = [pc |-> "get_or_create", year |-> year,
                          month |-> NormalizeMonthToShort(month_name),
                          payroll_entries |-> payroll_entries,
                          periods |-> periods, salaries |-> salaries,
                          period |-> 0, to_update |-> {}, to_create |-> <<>>,
                          nextPeriodId |-> nextPeriodId]

\* get_or_create of the period, the read of its rows and the loop that
\* builds to_update and to_create
save_get_or_create ==
    /\ tx.pc = "get_or_create"
    /\ \E ps1 \in {GetOrCreatePeriod(tx.periods, tx.year, tx.month, nextPeriodId)} :
       \E period_id \in {PeriodIdOf(ps1, tx.year, tx.month)} :
       \E existing_map \in {ExistingMap(tx.salaries, period_id)} :
          /\ tx' = [tx EXCEPT !.pc = "delete_missing",
                              !.periods = ps1,
                              !.period = period_id,
                              !.to_update = ToUpdate(existing_map, tx.payroll_entries),
                              !.to_create = ToCreate(existing_map, tx.payroll_entries,
                                                     period_id, nextSalaryId),
                              !.nextPeriodId = IF ps1 = tx.periods THEN nextPeriodId
                                               ELSE nextPeriodId + 1]
          /\ periods' = Isolated(periods, ps1)
    /\ UNCHANGED <<salaries, advances, nextSalaryId, nextPeriodId, last, calc, cache, tenant, others>>

save_delete_missing ==
    /\ tx.pc = "delete_missing"
    /\ \E rows \in {DeleteMissing(tx.salaries, tx.period,
                                  ExistingMap(tx.salaries, tx.period), tx.payroll_entries)} :
          /\ tx' = [tx EXCEPT !.pc = "bulk_update", !.salaries = rows]
          /\ salaries' = Isolated(salaries, rows)
    /\ UNCHANGED <<periods, advances, nextSalaryId, nextPeriodId, last, calc, cache, tenant, others>>

save_bulk_update ==
    /\ tx.pc = "bulk_update"
    /\ \E rows \in {BulkUpdateSalaries(tx.salaries, tx.to_update)} :
          /\ tx' = [tx EXCEPT !.pc = "bulk_create", !.salaries = rows]
          /\ salaries' = Isolated(salaries, rows)
    /\ UNCHANGED <<periods, advances, nextSalaryId, nextPeriodId, last, calc, cache, tenant, others>>

\* the exception leaves the atomic block: its writes are rolled back and the
\* handler answers 500
save_rollback ==
    /\ tx' = NoTx
    /\ last' = [last EXCEPT !.status = 500]
    /\ UNCHANGED <<periods, salaries, advances, nextSalaryId, nextPeriodId, calc, cache, tenant, others>>

save_bulk_create ==
    /\ tx.pc = "bulk_create"
    /\ IF UniqueViolation(tx.salaries, tx.to_create)
       THEN save_rollback
       ELSE \E rows \in {BulkCreateSalaries(tx.salaries, tx.to_create)} :
               /\ tx' = [tx EXCEPT !.pc = "commit", !.salaries = rows]
               /\ salaries' = Isolated(salaries, rows)
               /\ UNCHANGED <<periods, advances, nextSalaryId, nextPeriodId, last, calc, cache, tenant, others>>

\* leaving the atomic block: the writes become the committed rows
save_commit ==
    /\ tx.pc = "commit"
    /\ periods' = tx.periods
    /\ salaries' = tx.salaries
    /\ nextSalaryId' = nextSalaryId + Len(tx.to_create)
    /\ nextPeriodId' = tx.nextPeriodId
    /\ last' = [last EXCEPT !.status = 200, !.period = tx.period]
    /\ tx' = NoTx
    /\ cache' = InvalidatePayrollCaches(cache)
    /\ UNCHANGED <<advances, calc, tenant, others>>

\* a statement of the block fails in the database (connection lost,
\* deadlock, ...): the exception leaves the block
save_database_error ==
    /\ tx.pc \in {"get_or_create", "delete_missing", "bulk_update", "bulk_create"}
    /\ save_rollback

NextTx ==
    \/ \E year \in Years, month \in MonthInputs, payroll_entries \in Payloads \cup {<<>>} :
          save_begin(year, month, payroll_entries)
    \/ save_get_or_create
    \/ save_delete_missing
    \/ save_bulk_update
    \/ save_bulk_create
    \/ save_commit
    \/ save_database_error

SpecTx == InitSave /\ [][NextTx]_vars

\* a step of an open transaction, against what the whole request leaves
AtomicStep ==
    tx.pc # "idle" =>
        \E out \in {SaveOutcome(periods, salaries, nextSalaryId, nextPeriodId,
                                tx.year, tx.month, tx.payroll_entries)} :
            \/ /\ tx'.pc # "idle"
               /\ UNCHANGED <<periods, salaries>>
            \/ /\ tx'.pc = "idle" /\ last'.status = 500
               /\ UNCHANGED <<periods, salaries>>
            \/ /\ tx'.pc = "idle" /\ last'.status = 200
               /\ out.status = 200
               /\ periods' = out.periods /\ salaries' = out.salaries

\* C8: while a save_payroll_period_direct transaction is open the committed
\* PayrollPeriod and CalculatedSalary rows (what any other request reads) do
\* not change; when a statement fails they are exactly as before the call;
\* when the block is left normally they change in one step to the complete
\* result of get-or-create, delete-missing, bulk update and bulk create.
C8_AtomicReconciliation == [][AtomicStep]_vars

\* C8 witness: a transaction has deleted or updated rows and reached
\* bulk_create, which the unique constraint will refuse; the committed rows
\* are not those the transaction sees
C8_Witness ==
    /\ tx.pc = "bulk_create"
    /\ tx.salaries # salaries
    /\ UniqueViolation(tx.salaries, tx.to_create)

(***************************************************************************)
(* calculate_simple_payroll and calculate_simple_payroll_ultra_fast for    *)
(* one employee.  Money is in paise; a float quotient is held rounded to   *)
(* the paise, the precision of the round(x, 2) of the response.            *)
(***************************************************************************)
\* static_days = 30.4, times ten
StaticDaysTimes10 == 304

\* the shift length used when the shift times are not set
FallbackShiftHours == 8

RoundDiv(a, b) == (2 * a + b) \div (2 * b)

\* an employee and the month's attendance aggregate: shift is <<>> when the
\* times are not set, else <<start hour, end hour>>; the attendance upload
\* carries total_working_days, so uploaded_working_days > 0
CalcInputs ==
    [employee_id : {"E1"},
     basic_salary : {0, 3040000},
     shift : {<<>>, <<20, 6>>},
     uploaded_working_days : {19, 20},
     present_days : {0, 10},
     holiday_days : {0, 1},
     ot_hours : {0, 2},
     late_minutes : {0, 12},
     tds_percentage : {0, 5}]

\* SUM(remaining_balance) of the employee's advances with status IN
\* ('PENDING', 'PARTIALLY_PAID'), 0 when there is none
TotalAdvanceBalance(advs, employee_id) ==
    LET S == OpenAdvances(advs, {employee_id})
    IN  SumOver(S, [a \in S |-> a.remaining_balance])

\* shift_hours_per_day: an end at or before the start is on the next day
ShiftHours(shift) ==
    IF shift = <<>> THEN FallbackShiftHours
    ELSE IF shift[2] <= shift[1] THEN shift[2] + 24 - shift[1]
         ELSE shift[2] - shift[1]

\* ot_rate = base_salary / (shift_hours_per_day * static_days)
OtRate(basic_salary, shift_hours) ==
    IF shift_hours > 0 /\ basic_salary > 0
    THEN RoundDiv(basic_salary * 10, shift_hours * StaticDaysTimes10)
    ELSE 0

\* late_minutes * (ot_rate / 60)
LateDeduction(late_minutes, ot_rate) ==
    IF ot_rate > 0 THEN RoundDiv(late_minutes * ot_rate, 60) ELSE 0

\* TDS, advance deduction and net of the simple path; the advances of the
\* model are tagged for the month calculated, so advance_dict holds the
\* whole open balance
SimpleAmounts(emp, advs, gross_salary) ==
    LET tds_amount == RoundDiv(gross_salary * emp.tds_percentage, 100)
        salary_after_tds == gross_salary - tds_amount
        advance_deductions == TotalAdvanceBalance(advs, emp.employee_id)
        total_advance_balance == TotalAdvanceBalance(advs, emp.employee_id)
    IN  [gross_salary |-> gross_salary,
         tds_amount |-> tds_amount,
         salary_after_tds |-> salary_after_tds,
         total_advance_balance |-> total_advance_balance,
         advance_deduction |-> advance_deductions,
         net_salary |-> salary_after_tds - advance_deductions,
         remaining_balance |-> total_advance_balance - advance_deductions]

\* the payroll_data element calculate_simple_payroll builds for emp
SimplePayroll(emp, advs) ==
    LET employee_working_days == emp.uploaded_working_days
        salary_for_present_days ==
            IF employee_working_days > 0
            THEN RoundDiv(emp.basic_salary * emp.present_days, employee_working_days)
            ELSE 0
        ot_rate == OtRate(emp.basic_salary, ShiftHours(emp.shift))
        ot_charges == emp.ot_hours * ot_rate
        late_deduction == LateDeduction(emp.late_minutes, ot_rate)
    IN  [op |-> "calculate_simple_payroll", employee |-> emp,
         working_days |-> employee_working_days,
         present_days |-> emp.present_days,
         ot_charges |-> ot_charges,
         late_deduction |-> late_deduction,
         gross_salary |-> salary_for_present_days + ot_charges - late_deduction,
         amounts |-> SimpleAmounts(emp, advs,
                         salary_for_present_days + ot_charges - late_deduction)]

Max(a, b) == IF a >= b THEN a ELSE b

\* tds_amount = (gross_salary * tds_percentage) / 100
TdsAmount(gross_salary, tds_percentage) == RoundDiv(gross_salary * tds_percentage, 100)

\* faulty variant: the whole outstanding balance is deducted
FullAdvanceDeduction(total_advance_balance, salary_after_tds) == total_advance_balance

\* max_deductible = max(0, salary_after_tds);
\* actual_advance_deduction = min(total_advance_balance, max_deductible)
SmartAdvanceDeduction(total_advance_balance, salary_after_tds) ==
    IF total_advance_balance <= Max(0, salary_after_tds) THEN total_advance_balance
    ELSE Max(0, salary_after_tds)

\* gross, TDS, advance deduction and net of the ultra-fast path
UltraFastAmounts(emp, advs, gross_salary) ==
    LET tds_amount == TdsAmount(gross_salary, emp.tds_percentage)
        salary_after_tds == gross_salary - tds_amount
        total_advance_balance == TotalAdvanceBalance(advs, emp.employee_id)
        actual_advance_deduction ==
            SmartAdvanceDeduction(total_advance_balance, salary_after_tds)
    IN  [gross_salary |-> gross_salary,
         tds_amount |-> tds_amount,
         salary_after_tds |-> salary_after_tds,
         total_advance_balance |-> total_advance_balance,
         advance_deduction |-> actual_advance_deduction,
         net_salary |-> Max(0, salary_after_tds - actual_advance_deduction),
         remaining_balance |-> total_advance_balance - actual_advance_deduction]

\* the payroll_data element calculate_simple_payroll_ultra_fast builds for
\* emp from the row of its SQL query
UltraFastPayroll(emp, advs) ==
    LET employee_working_days == emp.uploaded_working_days
        ot_rate == OtRate(emp.basic_salary, ShiftHours(emp.shift))
        ot_charges == emp.ot_hours * ot_rate
        late_deduction == LateDeduction(emp.late_minutes, ot_rate)
        paid_days == emp.present_days + emp.holiday_days
        amounts == UltraFastAmounts(emp, advs,
                       RoundDiv(emp.basic_salary * 10 * paid_days, StaticDaysTimes10)
                       + ot_charges - late_deduction)
    IN  [op |-> "calculate_simple_payroll_ultra_fast", employee |-> emp,
         working_days |-> employee_working_days,
         present_days |-> paid_days,
         ot_charges |-> ot_charges,
         late_deduction |-> late_deduction,
         gross_salary |-> amounts.gross_salary,
         amounts |-> amounts]

calculate_simple_payroll(emp) ==
    /\ calc' = SimplePayroll(emp, advances)
    /\ UNCHANGED <<periods, salaries, advances, nextSalaryId, nextPeriodId, last, tx, cache, tenant, others>>

\* faulty variant: the calculation also applies the deduction it returns to
\* the ledger, as marking the salary paid does
calculate_and_repay_ultra_fast(emp) ==
    /\ calc' = UltraFastPayroll(emp, advances)
    /\ \E ordered \in AdvanceOrderings(OpenAdvances(advances, {emp.employee_id})) :
          advances' = ProcessAdvanceDeductions(advances, ordered,
                          [e \in Employees |->
                              IF e = emp.employee_id THEN calc'.amounts.advance_deduction
                              ELSE 0])
    /\ UNCHANGED <<periods, salaries, nextSalaryId, nextPeriodId, last, tx, cache, tenant, others>>

calculate_simple_payroll_ultra_fast(emp) ==
    /\ calc' = UltraFastPayroll(emp, advances)
    /\ UNCHANGED <<periods, salaries, advances, nextSalaryId, nextPeriodId, last, tx, cache, tenant, others>>

\* ledgers the calculation specification starts from: E1 with no advance,
\* a repaid one, or an open one below or above a month's salary; one open
\* advance of E2
CalcLedgers ==
    {{NewAdvance(2, "E2", 1, 700000)} \cup l :
        l \in {{},
               {[NewAdvance(1, "E1", 1, 500000) EXCEPT !.remaining_balance = 0,
                                                       !.status = "REPAID"]},
               {NewAdvance(1, "E1", 1, 500000)},
               {NewAdvance(1, "E1", 1, 5000000)}}}

InitCalc ==
    /\ periods = {NewPeriod(1, 2025, "JAN")}
    /\ salaries = {}
    /\ advances \in CalcLedgers
    /\ nextSalaryId = 1
    /\ nextPeriodId = 2
    /\ last = NoRequest
    /\ tx = NoTx
    /\ calc = NoCalc
    /\ cache = NoCache
    /\ tenant = NoTenant
    /\ InitOthers

NextCalc ==
    \/ \E emp \in CalcInputs : calculate_simple_payroll(emp)
    \/ \E emp \in CalcInputs : calculate_simple_payroll_ultra_fast(emp)
    \/ \E period_id \in PeriodIds : calculate_payroll(period_id)

SpecCalc == InitCalc /\ [][NextCalc]_vars

\* salary_for_present_days as the claim defines it, from the working days
\* and present days the path reports
StandardSalaryForPresentDays(r) ==
    IF r.working_days > 0
    THEN RoundDiv(r.employee.basic_salary * r.present_days, r.working_days)
    ELSE 0

\* C10 (the claim as stated): the element either calculation path returns
\* has gross_salary = salary_for_present_days + ot_charges - late_deduction
\* with salary_for_present_days = (basic_salary / working_days) *
\* present_days (0 when working_days is 0), and the two paths return the
\* same gross_salary for the same employee and attendance.
C10_StandardGross ==
    calc.op # "none" =>
        /\ calc.gross_salary = StandardSalaryForPresentDays(calc)
                               + calc.ot_charges - calc.late_deduction
        /\ SimplePayroll(calc.employee, advances).gross_salary
              = UltraFastPayroll(calc.employee, advances).gross_salary

\* C11: every element calculate_simple_payroll_ultra_fast returns has
\* advance_deduction = min(total outstanding balance, max(0,
\* salary_after_tds)) and net_salary = max(0, salary_after_tds -
\* advance_deduction), so net_salary, advance_deduction and
\* remaining_balance = total balance - advance_deduction are all >= 0.
C11_CappedAdvance ==
    calc.op = "calculate_simple_payroll_ultra_fast" =>
        \E a \in {calc.amounts} :
            /\ a.advance_deduction = Min(a.total_advance_balance, Max(0, a.salary_after_tds))
            /\ a.net_salary = Max(0, a.salary_after_tds - a.advance_deduction)
            /\ a.net_salary >= 0
            /\ a.advance_deduction >= 0
            /\ a.remaining_balance = a.total_advance_balance - a.advance_deduction
            /\ a.remaining_balance >= 0

\* C11 witness: the outstanding balance exceeds a positive salary_after_tds:
\* the deduction is capped at the salary, net is 0 and part of the balance
\* remains
C11_Witness ==
    /\ calc.op = "calculate_simple_payroll_ultra_fast"
    /\ calc.amounts.salary_after_tds > 0
    /\ calc.amounts.total_advance_balance > calc.amounts.salary_after_tds
    /\ calc.amounts.advance_deduction = calc.amounts.salary_after_tds
    /\ calc.amounts.net_salary = 0
    /\ calc.amounts.remaining_balance > 0

\* the rows a calculation endpoint returns now for the request that calc
\* records
Recalculated ==
    IF calc.op = "calculate_simple_payroll" THEN SimplePayroll(calc.employee, advances)
    ELSE UltraFastPayroll(calc.employee, advances)

MaxAdvances == 2

\* the period can be deleted: it exists, is not locked and has no paid salary
Deletable(ps, rows, period_id) ==
    /\ \E p \in ps : p.id = period_id /\ ~p.is_locked
    /\ ~\E s \in rows : s.payroll_period = period_id /\ s.is_paid

\* PayrollPeriodViewSet.destroy
destroy(period_id) ==
    LET req == [NoRequest EXCEPT !.op = "destroy", !.period = period_id]
    IN  /\ UNCHANGED <<advances, nextSalaryId, nextPeriodId, tx, calc, tenant, others>>
        /\ IF ~\E p \in periods : p.id = period_id
           THEN \* get_object raises Http404 inside the try: `except Exception`
                /\ last' = [req EXCEPT !.status = 500]
                /\ UNCHANGED <<periods, salaries, cache>>
           ELSE IF ~Deletable(periods, salaries, period_id)
           THEN /\ last' = [req EXCEPT !.status = 400]
                /\ UNCHANGED <<periods, salaries, cache>>
           ELSE /\ salaries' = {s \in salaries : s.payroll_period # period_id}
                /\ periods' = {p \in periods : p.id # period_id}
                /\ IF cache.down
                   THEN \* cache.delete raises after the atomic block committed
                        /\ last' = [req EXCEPT !.status = 500]
                        /\ UNCHANGED cache
                   ELSE /\ last' = [req EXCEPT !.status = 200]
                        /\ cache' = CacheDelete(cache, {"payroll_overview", "frontend_charts"})

\* add_employee_advance
add_employee_advance(employee_id, amount) ==
    LET req == [NoRequest EXCEPT !.op = "add_employee_advance"]
        id == Cardinality(advances) + 1
    IN  /\ Cardinality(advances) < MaxAdvances
        /\ UNCHANGED <<periods, salaries, nextSalaryId, nextPeriodId, tx, calc, tenant, others>>
        /\ IF amount = 0
           THEN \* `not all([employee_id, amount, for_month])`
                /\ last' = [req EXCEPT !.status = 400]
                /\ UNCHANGED <<advances, cache>>
           ELSE IF employee_id \notin Employees
           THEN /\ last' = [req EXCEPT !.status = 404]
                /\ UNCHANGED <<advances, cache>>
           ELSE /\ advances' = advances \cup {NewAdvance(id, employee_id, 2, amount)}
                /\ IF cache.down
                   THEN /\ last' = [req EXCEPT !.status = 500]
                        /\ UNCHANGED cache
                   ELSE /\ last' = [req EXCEPT !.status = 200]
                        /\ cache' = CacheDelete(cache, {"payroll_overview"})

\* a read endpoint that answers from the cache entry or computes the answer
\* and stores it: payroll_overview, get_months_with_attendance, and the
\* frontend charts endpoint
CachedRead(op, entry) ==
    /\ last' = [NoRequest EXCEPT !.op = op, !.status = IF cache.down THEN 500 ELSE 200]
    /\ cache' = IF cache.down THEN cache ELSE [cache EXCEPT !.keys = @ \cup {entry}]
    /\ UNCHANGED <<periods, salaries, advances, nextSalaryId, nextPeriodId, tx, calc, tenant, others>>

payroll_overview == CachedRead("payroll_overview", "payroll_overview")
get_months_with_attendance == CachedRead("get_months_with_attendance", "months_with_attendance")
frontend_charts == CachedRead("frontend_charts", "frontend_charts")

\* the cache backend becomes unreachable, or reachable again
cache_backend_fails ==
    /\ ~cache.down
    /\ cache' = [cache EXCEPT !.down = TRUE]
    /\ UNCHANGED <<periods, salaries, advances, nextSalaryId, nextPeriodId, last, tx, calc, tenant, others>>

cache_backend_recovers ==
    /\ cache.down
    /\ cache' = [cache EXCEPT !.down = FALSE]
    /\ UNCHANGED <<periods, salaries, advances, nextSalaryId, nextPeriodId, last, tx, calc, tenant, others>>

\* the database after JAN was saved and paid for E1, FEB was saved for E1
\* and MAR was created empty; one advance of E1
InitCache ==
    /\ periods = {NewPeriod(1, 2025, "JAN"), NewPeriod(2, 2025, "FEB"), NewPeriod(3, 2025, "MAR")}
    /\ salaries = {[CreatedRow(1, 1, Entry("E1", 1000, 100, 20, 50, 120, 910, FALSE))
                        EXCEPT !.is_paid = TRUE, !.payment_date = Today],
                   CreatedRow(2, 2, Entry("E1", 900, 0, 0, 0, 50, 850, FALSE))}
    /\ advances = {NewAdvance(1, "E1", 1, 100)}
    /\ nextSalaryId = 3
    /\ nextPeriodId = 4
    /\ last = NoRequest
    /\ tx = NoTx
    /\ calc = NoCalc
    /\ cache = NoCache
    /\ tenant = NoTenant
    /\ InitOthers

NextCache ==
    \/ \E period_id \in PeriodIds : lock_payroll_period(period_id)
    \/ \E period_id \in PeriodIds : destroy(period_id)
    \/ \E employee_id \in Employees \cup {"E9"}, amount \in {0, 50} :
          add_employee_advance(employee_id, amount)
    \/ \E salary_ids \in {{id} : id \in SalaryIds} : mark_salary_paid(salary_ids, NoDate, TRUE)
    \/ payroll_overview
    \/ get_months_with_attendance
    \/ frontend_charts
    \/ cache_backend_fails
    \/ cache_backend_recovers

SpecCache == InitCache /\ [][NextCache]_vars

\* a step that is a request (the backend's state is as before), answered
\* with success by one of the operations that change payroll data
MutatingOps == {"lock_payroll_period", "destroy", "add_employee_advance", "mark_salary_paid"}
MutationSucceeded ==
    /\ cache'.down = cache.down
    /\ last'.op \in MutatingOps
    /\ last'.status = 200

\* C13: after a mutating payroll operation (lock_payroll_period,
\* PayrollPeriodViewSet.destroy, add_employee_advance, mark_salary_paid)
\* has completed successfully, the tenant's payroll_overview entry, its
\* frontend_charts entries and its months_with_attendance entry are all
\* absent from the cache.
C13_AllCachesInvalidated == [][MutationSucceeded => cache'.keys = {}]_vars

\* a request reached its cache.delete while the backend was unreachable:
\* lock_payroll_period of an existing period, destroy of a deletable period
LockReachedCache == last'.op = "lock_payroll_period" /\ \E p \in periods : p.id = last'.period
DestroyReachedCache == last'.op = "destroy" /\ Deletable(periods, salaries, last'.period)
AdvanceReachedCache == last'.op = "add_employee_advance" /\ advances' # advances

\* C14: when the cache backend fails during the invalidation of
\* lock_payroll_period, PayrollPeriodViewSet.destroy or
\* add_employee_advance, the response is still a success response and the
\* database mutation is persisted.
C14_CacheFailureSwallowed ==
    [][(cache.down /\ cache'.down)
        => /\ LockReachedCache
              => last'.status = 200 /\ periods' = LockPeriod(periods, last'.period)
           /\ DestroyReachedCache
              => /\ last'.status = 200
                 /\ ~\E p \in periods' : p.id = last'.period
           /\ AdvanceReachedCache => last'.status = 200]_vars

(***************************************************************************)
(* Two save_payroll_period_direct requests for the same (year, month) on   *)
(* two database connections.  periods and salaries are the committed rows; *)
(* tx[c] holds the request of connection c and the writes of its open      *)
(* transaction.  Statements run under READ COMMITTED: a statement sees the *)
(* rows committed when it starts and the transaction's own writes; a       *)
(* statement that has to write a row another open transaction has written, *)
(* or to insert a key another open transaction has inserted, waits for     *)
(* that transaction to end.                                                *)
(***************************************************************************)
RaceYear == 2025
RaceMonth == NormalizeMonthToShort(ParseMonthName("1"))

RaceIdle ==
    [pc |-> "idle", status |-> 0, payroll_entries |-> <<>>, period |-> 0, new_period |-> 0,
     existing_map |-> [e \in Employees |-> NoRow], to_update |-> {},
     deleted |-> {}, updated |-> {}, created |-> {}]

Open(c) == tx[c].pc \notin {"idle", "done"}

\* ids of the rows the open transaction of c holds a row lock on
Locked(c) == IF Open(c) THEN tx[c].deleted \cup {u.id : u \in tx[c].updated} ELSE {}

\* the rows a statement of c sees
View(c) == {cs \in salaries : cs.id \notin tx[c].deleted} \cup tx[c].created

\* the request enters `with transaction.atomic():`
race_begin(c, payroll_entries) ==
    /\ tx[c].pc = "idle"
    /\ tx' = [tx EXCEPT ![c] = [RaceIdle EXCEPT !.pc = "get_or_create",
                                               !.payroll_entries = payroll_entries]]
    /\ UNCHANGED <<periods, salaries, advances, nextSalaryId, nextPeriodId, last, calc, cache, tenant, others>>

\* PayrollPeriod.objects.get_or_create: the committed period is read, or the
\* period is inserted; the insert waits while another transaction holds an
\* uncommitted period of the same (tenant, year, month)
race_get_or_create(c) ==
    /\ tx[c].pc = "get_or_create"
    /\ IF PeriodIdOf(periods, RaceYear, RaceMonth) # 0
       THEN /\ tx' = [tx EXCEPT ![c].pc = "fetch_existing",
                                ![c].period = PeriodIdOf(periods, RaceYear, RaceMonth)]
            /\ UNCHANGED nextPeriodId
       ELSE /\ ~(Open(Other(c)) /\ tx[Other(c)].new_period # 0)
            /\ tx' = [tx EXCEPT ![c].pc = "fetch_existing",
                                ![c].period = nextPeriodId,
                                ![c].new_period = nextPeriodId]
            /\ nextPeriodId' = nextPeriodId + 1
    /\ UNCHANGED <<periods, salaries, advances, nextSalaryId, last, calc, cache, tenant, others>>

\* existing_list / existing_map and the loop that fills to_update
race_fetch_existing(c) ==
    /\ tx[c].pc = "fetch_existing"
    /\ \E existing_map \in {ExistingMap(View(c), tx[c].period)} :
          tx' = [tx EXCEPT ![c].pc = "delete_missing",
                           ![c].existing_map = existing_map,
                           ![c].to_update = ToUpdate(existing_map, tx[c].payroll_entries)]
    /\ UNCHANGED <<periods, salaries, advances, nextSalaryId, nextPeriodId, last, calc, cache, tenant, others>>

\* the filtered delete() of the employees missing from the payload
race_delete_missing(c) ==
    /\ tx[c].pc = "delete_missing"
    /\ \E rows \in {DeleteMissing(View(c), tx[c].period, tx[c].existing_map,
                                  tx[c].payroll_entries)} :
       \E ids \in {{cs.id : cs \in View(c) \ rows}} :
          /\ ids \cap Locked(Other(c)) = {}
          /\ tx' = [tx EXCEPT ![c].pc = "bulk_update", ![c].deleted = @ \cup ids]
    /\ UNCHANGED <<periods, salaries, advances, nextSalaryId, nextPeriodId, last, calc, cache, tenant, others>>

\* bulk_update(to_update, fields=[...]): UPDATE ... WHERE id = pk writes the
\* listed fields of the rows that still exist
race_bulk_update(c) ==
    /\ tx[c].pc = "bulk_update"
    /\ \E rows \in {{u \in tx[c].to_update : \E cs \in View(c) : cs.id = u.id}} :
          /\ {u.id : u \in rows} \cap Locked(Other(c)) = {}
          /\ tx' = [tx EXCEPT ![c].pc = "bulk_create", ![c].updated = rows]
    /\ UNCHANGED <<periods, salaries, advances, nextSalaryId, nextPeriodId, last, calc, cache, tenant, others>>

\* the exception leaves the atomic block: the writes are rolled back and
\* the handler answers 500
race_rollback(c) ==
    /\ tx' = [tx EXCEPT ![c] = [RaceIdle EXCEPT !.pc = "done", !.status = 500,
                                               !.payroll_entries = tx[c].payroll_entries]]
    /\ last' = [NoRequest EXCEPT !.op = "save_payroll_period_direct", !.status = 500]
    /\ UNCHANGED <<periods, salaries, advances, nextSalaryId, nextPeriodId, calc, cache, tenant, others>>

\* bulk_create(to_create): the INSERT waits for an open transaction that has
\* inserted the same (payroll_period, employee_id) and raises IntegrityError
\* when a row it sees has it
race_bulk_create(c) ==
    /\ tx[c].pc = "bulk_create"
    /\ \E to_create \in {ToCreate(tx[c].existing_map, tx[c].payroll_entries,
                                  tx[c].period, nextSalaryId)} :
          /\ ~(Open(Other(c)) /\ \E i \in 1..Len(to_create) : \E cs \in tx[Other(c)].created :
                  /\ cs.payroll_period = to_create[i].payroll_period
                  /\ cs.employee_id = to_create[i].employee_id)
          /\ IF UniqueViolation(View(c), to_create)
             THEN race_rollback(c)
             ELSE /\ tx' = [tx EXCEPT ![c].pc = "commit", ![c].created = Range(to_create)]
                  /\ nextSalaryId' = nextSalaryId + Len(to_create)
                  /\ UNCHANGED <<periods, salaries, advances, nextPeriodId, last, calc, cache, tenant, others>>

\* the listed fields of u written over the row cs (payment_date is not listed)
WriteFields(cs, u) == [u EXCEPT !.payment_date = cs.payment_date]

\* leaving the atomic block: the writes become committed rows
race_commit(c) ==
    /\ tx[c].pc = "commit"
    /\ periods' = IF tx[c].new_period = 0 THEN periods
                  ELSE GetOrCreatePeriod(periods, RaceYear, RaceMonth, tx[c].new_period)
    /\ salaries' = {IF \E u \in tx[c].updated : u.id = cs.id
                    THEN WriteFields(cs, CHOOSE u \in tx[c].updated : u.id = cs.id)
                    ELSE cs : cs \in {x \in salaries : x.id \notin tx[c].deleted}}
                   \cup tx[c].created
    /\ tx' = [tx EXCEPT ![c].pc = "done", ![c].status = 200,
                        ![c].deleted = {}, ![c].updated = {}, ![c].created = {}]
    /\ last' = [NoRequest EXCEPT !.op = "save_payroll_period_direct", !.status = 200,
                                 !.period = tx[c].period]
    /\ cache' = InvalidatePayrollCaches(cache)
    /\ UNCHANGED <<advances, nextSalaryId, nextPeriodId, calc, tenant, others>>

\* a statement of the block fails in the database (connection lost, the
\* transaction chosen as deadlock victim, ...)
race_database_error(c) ==
    /\ tx[c].pc \in {"get_or_create", "fetch_existing", "delete_missing", "bulk_update",
                     "bulk_create"}
    /\ race_rollback(c)

\* the database before the two requests: JAN not yet saved, or saved with
\* no row, with a row of E1, or with rows of E1 and E2
InitRace ==
    /\ \E saved \in 0..3 :
          /\ periods = IF saved = 0 THEN {} ELSE {NewPeriod(1, RaceYear, RaceMonth)}
          /\ salaries = {CreatedRow(1, 1, Entry("E1", 1000, 100, 20, 50, 120, 910, FALSE)) :
                            x \in {y \in {saved} : y >= 2}}
                        \cup {CreatedRow(2, 1, Entry("E2", 800, 0, 0, 0, 0, 800, FALSE)) :
                                 x \in {y \in {saved} : y = 3}}
    /\ advances = {}
    /\ nextSalaryId = 3
    /\ nextPeriodId = 2
    /\ last = NoRequest
    /\ tx = [c \in Conns |-> RaceIdle]
    /\ calc = NoCalc
    /\ cache = NoCache
    /\ tenant = NoTenant
    /\ InitOthers

NextRace ==
    \E c \in Conns :
        \/ \E payroll_entries \in Payloads : race_begin(c, payroll_entries)
        \/ race_get_or_create(c)
        \/ race_fetch_existing(c)
        \/ race_delete_missing(c)
        \/ race_bulk_update(c)
        \/ race_bulk_create(c)
        \/ race_commit(c)
        \/ race_database_error(c)

SpecRace == InitRace /\ [][NextRace]_vars

\* both requests have committed
BothCommitted == \A c \in Conns : tx[c].pc = "done" /\ tx[c].status = 200

\* C18: once two concurrent save_payroll_period_direct requests for the
\* same (year, month) have both committed there is a single PayrollPeriod,
\* no employee has two rows in it, and the employees that have a row are
\* those of one of the two payloads.
C18_LastWriterWins ==
    BothCommitted =>
        /\ Cardinality({p \in periods : p.year = RaceYear /\ p.month = RaceMonth}) = 1
        /\ \A s1, s2 \in salaries :
              (s1.payroll_period = s2.payroll_period /\ s1.employee_id = s2.employee_id)
              => s1 = s2
        /\ \E w \in Conns :
              {cs.employee_id : cs \in salaries} = PayloadEmpIds(tx[w].payroll_entries)

(***************************************************************************)
(* Tenant credits.  A request works on the Tenant instance that was read   *)
(* when it started; deduct_daily_credit and add_credits re-read the row    *)
(* under select_for_update inside transaction.atomic(), which serialises   *)
(* them, so each is one step.  Days are IST calendar days.                 *)
(***************************************************************************)
MaxDay == 4
MaxCredits == 3
\* deductions followed within one day
MaxDeducted == 2

\* the request on connection c starts: its Tenant instance is read
load_tenant(c) ==
    /\ ~tenant.inst[c].loaded
    /\ tenant' = [tenant EXCEPT !.inst[c] = [loaded |-> TRUE] @@ tenant.row]
    /\ UNCHANGED <<periods, salaries, advances, nextSalaryId, nextPeriodId, last, tx, calc, cache, others>>

\* the request on connection c ends
end_request(c) ==
    /\ tenant.inst[c].loaded
    /\ tenant' = [tenant EXCEPT !.inst[c] = NoInstance]
    /\ UNCHANGED <<periods, salaries, advances, nextSalaryId, nextPeriodId, last, tx, calc, cache, others>>

\* tenant.credits -= 1 ... tenant.save(update_fields=['credits', 'is_active',
\* 'updated_at']) on the row read under select_for_update
DeductedRow(row, day) ==
    [row EXCEPT !.credits = @ - 1,
                !.is_active = IF row.credits - 1 = 0 THEN FALSE ELSE @,
                !.updated_at = day]

\* Tenant.deduct_daily_credit on the instance of connection c
deduct_daily_credit(c) ==
    LET self == tenant.inst[c]
        should_deduct == self.updated_at < tenant.day
    IN  /\ self.loaded
        /\ tenant.deducted < MaxDeducted
        /\ tenant' = IF should_deduct /\ self.credits > 0 /\ tenant.row.credits > 0
                     THEN [tenant EXCEPT !.row = DeductedRow(tenant.row, tenant.day),
                                         !.deducted = @ + 1,
                                         !.called = TRUE]
                     ELSE [tenant EXCEPT !.called = @ \/ tenant.row.credits > 0]
        /\ UNCHANGED <<periods, salaries, advances, nextSalaryId, nextPeriodId, last, tx, calc,
                       cache, others>>

\* Tenant.add_credits(amount) on the instance of connection c: the row is
\* saved with update_fields=['credits', 'is_active'], updated_at is not
\* written
add_credits(c, amount) ==
    /\ tenant.inst[c].loaded
    /\ tenant.row.credits + amount <= MaxCredits
    /\ tenant' = IF amount <= 0 THEN tenant
                 ELSE [tenant EXCEPT !.row.credits = @ + amount,
                                     !.row.is_active = TRUE]
    /\ UNCHANGED <<periods, salaries, advances, nextSalaryId, nextPeriodId, last, tx, calc, cache, others>>

\* auto_payroll_settings (POST): tenant.save() writes every field of the
\* request's instance and sets updated_at
auto_payroll_settings(c, auto_calculate) ==
    /\ tenant.inst[c].loaded
    /\ \E saved \in {[tenant.inst[c] EXCEPT !.auto_calculate_payroll = auto_calculate,
                                            !.updated_at = tenant.day]} :
          tenant' = [tenant EXCEPT !.inst[c] = saved,
                                   !.row = [f \in DOMAIN tenant.row |-> saved[f]]]
    /\ last' = [NoRequest EXCEPT !.op = "auto_payroll_settings", !.status = 200]
    /\ UNCHANGED <<periods, salaries, advances, nextSalaryId, nextPeriodId, tx, calc, cache, others>>

\* midnight in IST
next_day ==
    /\ tenant.day < MaxDay
    /\ tenant' = [tenant EXCEPT !.day = @ + 1, !.deducted = 0, !.called = FALSE]
    /\ UNCHANGED <<periods, salaries, advances, nextSalaryId, nextPeriodId, last, tx, calc, cache, others>>

\* day 2 of a tenant created on day 1 with 2 credits
InitCredit ==
    /\ periods = {}
    /\ salaries = {}
    /\ advances = {}
    /\ nextSalaryId = 1
    /\ nextPeriodId = 1
    /\ last = NoRequest
    /\ tx = NoTx
    /\ calc = NoCalc
    /\ cache = NoCache
    /\ tenant = [NewTenant(1, 2) EXCEPT !.day = 2]
    /\ InitOthers

NextCredit ==
    \/ \E c \in Conns : load_tenant(c)
    \/ \E c \in Conns : deduct_daily_credit(c)
    \/ \E c \in Conns, amount \in {0, 1} : add_credits(c, amount)
    \/ \E c \in Conns, auto_calculate \in BOOLEAN : auto_payroll_settings(c, auto_calculate)
    \/ \E c \in Conns : end_request(c)
    \/ next_day

SpecCredit == InitCredit /\ [][NextCredit]_vars

\* C19: on each IST day on which deduct_daily_credit is called while the
\* tenant has credits exactly one credit is deducted in total, however many
\* calls are made, concurrently or not, and whatever add_credits and
\* auto_payroll_settings save on that day; credits is never negative.
C19_OneCreditPerDay ==
    /\ [][tenant'.day # tenant.day => (tenant.called => tenant.deducted = 1)]_vars
    /\ [](tenant.deducted <= 1 /\ tenant.row.credits >= 0)

(***************************************************************************)
(* Tenant isolation.  The tables hold the rows of two tenants; every row   *)
(* carries its tenant, primary keys are unique over the table and          *)
(* employee_id values are shared by the tenants.  A request runs for the   *)
(* tenant of its context and may name any id.                              *)
(***************************************************************************)
Tenants == {"TA", "TB"}
OtherTenant(t) == IF t = "TA" THEN "TB" ELSE "TA"

\* a row of tenant t
OfTenant(t, row) == row @@ [tenant |-> t]

\* faulty variant: the queryset is not scoped (TenantAwareManager without a
\* current tenant)
Unscoped(rows, t) == rows

\* .filter(tenant=tenant, ...) / WHERE tenant_id = %s
TenantFilter(rows, t) == {r \in rows : r.tenant = t}

\* mark_salary_paid in the context of tenant t
tenant_mark_salary_paid(t, salary_ids, payment_date, mark_as_paid) ==
    LET parsed_date == IF mark_as_paid
                       THEN (IF payment_date # NoDate THEN payment_date ELSE Today)
                       ELSE NoDate
    IN  /\ UNCHANGED <<periods, nextSalaryId, nextPeriodId, tx, calc, cache, tenant, others>>
        /\ \E calculated_salaries \in {SelectSalaries(TenantFilter(salaries, t), salary_ids)} :
           \E deductions \in {EmployeeAdvanceDeductions(calculated_salaries, mark_as_paid)} :
           \E req \in {[NoRequest EXCEPT !.op = "mark_salary_paid",
                                         !.mark_as_paid = mark_as_paid,
                                         !.named_paid = \E s \in calculated_salaries : s.is_paid]
                       @@ [tenant |-> t, salary_ids |-> salary_ids]} :
              IF salary_ids = {}
              THEN /\ last' = [req EXCEPT !.status = 400]
                   /\ UNCHANGED <<salaries, advances>>
              ELSE IF calculated_salaries = {}
              THEN /\ last' = [req EXCEPT !.status = 404]
                   /\ UNCHANGED <<salaries, advances>>
              ELSE /\ salaries' = MarkRows(salaries, calculated_salaries, mark_as_paid, parsed_date)
                   /\ \E ordered \in AdvanceOrderings(
                             OpenAdvances(TenantFilter(advances, t),
                                          {e \in Employees : deductions[e] > 0})) :
                          advances' = ProcessAdvanceDeductions(advances, ordered, deductions)
                   /\ last' = [req EXCEPT !.status = 200, !.deductions = deductions]

\* calculate_simple_payroll_ultra_fast in the context of tenant t, for an
\* employee of t
tenant_calculate_ultra_fast(t, emp) ==
    /\ calc' = UltraFastPayroll(emp, TenantFilter(advances, t)) @@ [tenant |-> t]
    /\ UNCHANGED <<periods, salaries, advances, nextSalaryId, nextPeriodId, last, tx, cache, tenant, others>>

\* PayrollPeriodViewSet.destroy in the context of tenant t
tenant_destroy(t, period_id) ==
    LET req == [NoRequest EXCEPT !.op = "destroy", !.period = period_id]
               @@ [tenant |-> t, salary_ids |-> {}]
        queryset == TenantFilter(periods, t)
    IN  /\ UNCHANGED <<advances, nextSalaryId, nextPeriodId, tx, calc, cache, tenant, others>>
        /\ IF ~\E p \in queryset : p.id = period_id
           THEN /\ last' = [req EXCEPT !.status = 500]
                /\ UNCHANGED <<periods, salaries>>
           ELSE IF ~Deletable(queryset, salaries, period_id)
           THEN /\ last' = [req EXCEPT !.status = 400]
                /\ UNCHANGED <<periods, salaries>>
           ELSE /\ salaries' = {s \in salaries : s.payroll_period # period_id}
                /\ periods' = {p \in periods : p.id # period_id}
                /\ last' = [req EXCEPT !.status = 200]

\* the employee rows (profile and attendance of the month) the calculation
\* of either tenant reads
IsoEmployees ==
    {emp \in CalcInputs : /\ emp.shift = <<>> /\ emp.uploaded_working_days = 20
                          /\ emp.present_days = 10 /\ emp.holiday_days = 0
                          /\ emp.ot_hours = 0 /\ emp.late_minutes = 0
                          /\ emp.tds_percentage = 0}

\* JAN of tenant TA with salaries of E1 and E2 and an advance of E1; tenant
\* TB with or without its own JAN, a salary of its E1 and advances of E1
InitIso ==
    /\ \E b_rows \in BOOLEAN, b_amount \in {50, 80} :
          /\ periods = {OfTenant("TA", NewPeriod(1, 2025, "JAN"))}
                       \cup {OfTenant("TB", NewPeriod(2, 2025, "JAN")) : x \in {y \in {b_rows} : y}}
          /\ salaries = {OfTenant("TA", CreatedRow(1, 1, Entry("E1", 1000, 100, 20, 50, 120, 910, FALSE))),
                         OfTenant("TA", CreatedRow(2, 1, Entry("E2", 800, 0, 0, 0, 0, 800, FALSE)))}
                        \cup {OfTenant("TB", CreatedRow(3, 2, Entry("E1", 900, 0, 0, 0, 50, 850, FALSE))) :
                                 x \in {y \in {b_rows} : y}}
          /\ advances = {OfTenant("TA", NewAdvance(1, "E1", 1, 100)),
                         OfTenant("TB", NewAdvance(2, "E1", 1, b_amount)),
                         OfTenant("TB", NewAdvance(3, "E1", 2, 50))}
    /\ nextSalaryId = 4
    /\ nextPeriodId = 3
    /\ last = NoRequest @@ [tenant |-> "TA", salary_ids |-> {}]
    /\ tx = NoTx
    /\ calc = NoCalc
    /\ cache = NoCache
    /\ tenant = NoTenant
    /\ InitOthers

NextIso ==
    \E t \in Tenants :
        \/ \E salary_ids \in SUBSET (1..3), mark_as_paid \in BOOLEAN :
              tenant_mark_salary_paid(t, salary_ids, NoDate, mark_as_paid)
        \/ \E emp \in IsoEmployees : tenant_calculate_ultra_fast(t, emp)
        \/ \E period_id \in 1..2 : tenant_destroy(t, period_id)

SpecIso == InitIso /\ [][NextIso]_vars

\* the rows of tenant t are the same after the step
RowsKept(t) ==
    /\ {r \in periods' : r.tenant = t} = {r \in periods : r.tenant = t}
    /\ {r \in salaries' : r.tenant = t} = {r \in salaries : r.tenant = t}
    /\ {r \in advances' : r.tenant = t} = {r \in advances : r.tenant = t}

\* the answer to a request of tenant t, read off the rows of t alone
OwnSalaries(t, ids) == {r \in salaries : r.tenant = t /\ r.id \in ids}
OwnDeduction(t, ids, e) ==
    LET S == {r \in OwnSalaries(t, ids) : r.employee_id = e /\ r.advance_deduction_amount > 0}
    IN  SumOver(S, [r \in S |-> r.advance_deduction_amount])
OwnOpenBalance(t, e) ==
    LET S == {r \in advances : r.tenant = t /\ r.employee_id = e /\ r.status # "REPAID"}
    IN  SumOver(S, [r \in S |-> r.remaining_balance])

MarkPaidIsolated ==
    (calc' = calc /\ last'.op = "mark_salary_paid") =>
        /\ RowsKept(OtherTenant(last'.tenant))
        /\ last'.salary_ids # {} =>
              /\ last'.status = (IF OwnSalaries(last'.tenant, last'.salary_ids) = {} THEN 404 ELSE 200)
              /\ \A e \in Employees :
                    last'.deductions[e] = IF last'.mark_as_paid
                                          THEN OwnDeduction(last'.tenant, last'.salary_ids, e)
                                          ELSE 0

DestroyIsolated ==
    (calc' = calc /\ last'.op = "destroy") =>
        /\ RowsKept(OtherTenant(last'.tenant))
        /\ last'.status = 200 <=>
              /\ \E p \in periods : p.tenant = last'.tenant /\ p.id = last'.period /\ ~p.is_locked
              /\ ~\E r \in salaries : /\ r.tenant = last'.tenant /\ r.payroll_period = last'.period
                                      /\ r.is_paid

CalculationIsolated ==
    calc' # calc =>
        /\ RowsKept(OtherTenant(calc'.tenant))
        /\ calc'.amounts.total_advance_balance
              = OwnOpenBalance(calc'.tenant, calc'.employee.employee_id)

DefaultWorkingDays == 30

\* January 2025 (starts on a Wednesday), February 2025 (starts on a Saturday)
MonthShapes == {[first_weekday |-> 2, days |-> 31], [first_weekday |-> 5, days |-> 28]}

\* off_monday .. off_sunday by weekday number
OffFlags == [0..6 -> BOOLEAN]

\* date_of_joining: null, before the month, inside it, on its last day of
\* February, after it
JoiningDates == {{}, {-3}, {1}, {15}, {28}, {40}}

WorkingDayInputs ==
    [employee_id : {"E1"},
     date_of_joining : JoiningDates,
     off : OffFlags,
     month : MonthShapes,
     uploaded_working_days : {0, 1, 22}]

\* day_date.weekday() of the d-th date of the month
Weekday(month, d) == (month.first_weekday + d - 1) % 7

RECURSIVE CountMonthDates(_, _, _)
\* the loop over month_dates from the d-th date on: dates before the date
\* of joining are skipped, the others counted as off day or working day
CountMonthDates(emp, d, acc) ==
    IF d > emp.month.days THEN acc
    ELSE IF \E doj \in emp.date_of_joining : d < doj
         THEN CountMonthDates(emp, d + 1, acc)
    ELSE IF emp.off[Weekday(emp.month, d)]
         THEN CountMonthDates(emp, d + 1,
                  [acc EXCEPT !.off_days_count = @ + 1])
    ELSE CountMonthDates(emp, d + 1, [acc EXCEPT !.working_days = @ + 1])

\* faulty variant: the count is stored as it is
EmployeeWorkingDaysCounted(emp) ==
    CountMonthDates(emp, 1, [working_days |-> 0, off_days_count |-> 0]).working_days

\* employee_working_days_map[employee_id]
EmployeeWorkingDaysMap(emp) ==
    LET counted == CountMonthDates(emp, 1, [working_days |-> 0, off_days_count |-> 0])
    IN  IF counted.working_days > 0 THEN counted.working_days
        ELSE DefaultWorkingDays

\* employee_working_days of the result row of emp
EmployeeWorkingDays(emp) ==
    IF emp.uploaded_working_days > 0 THEN emp.uploaded_working_days
    ELSE EmployeeWorkingDaysMap(emp)

\* the working_days field calculate_simple_payroll_ultra_fast reports for
\* the employee and month of the request
resolve_working_days ==
    /\ calc.op = "working_days_request"
    /\ calc' = [op |-> "working_days", employee |-> calc.employee,
                working_days |-> EmployeeWorkingDays(calc.employee)]
    /\ UNCHANGED <<periods, salaries, advances, nextSalaryId, nextPeriodId, last, tx, cache, tenant, others>>

InitDays ==
    /\ periods = {NewPeriod(1, 2025, "JAN")}
    /\ salaries = {}
    /\ advances = {}
    /\ nextSalaryId = 1
    /\ nextPeriodId = 2
    /\ last = NoRequest
    /\ tx = NoTx
    /\ calc \in {[op |-> "working_days_request", employee |-> emp] :
                    emp \in WorkingDayInputs}
    /\ cache = NoCache
    /\ tenant = NoTenant
    /\ InitOthers

NextDays == resolve_working_days

SpecDays == InitDays /\ [][NextDays]_vars

\* the dates of the month on or after the date of joining whose weekday is
\* not flagged off
EligibleDates(emp) ==
    {d \in 1..emp.month.days :
        /\ \A doj \in emp.date_of_joining : d >= doj
        /\ ~emp.off[Weekday(emp.month, d)]}

InitPayrollEmpty ==
    /\ periods = {NewPeriod(1, 2025, "JAN")}
    /\ salaries = {}
    /\ advances = {}
    /\ nextSalaryId = 1
    /\ nextPeriodId = 2
    /\ last = NoRequest
    /\ tx = NoTx
    /\ calc = NoCalc
    /\ cache = NoCache
    /\ tenant = NoTenant

\* datetime.today().date() is evaluated once for start_dt and once for
\* end_dt: the two day numbers are equal, or midnight passes in between
TodayReads == {<<0, 0>>, <<0, 1>>}

\* EmployeeProfile._calculate_shift_hours, in hours
CalculateShiftHours(shift, today) ==
    IF shift = <<>> THEN 0
    ELSE LET start_dt == today[1] * 24 + shift[1]
             end_dt == today[2] * 24 + shift[2]
         IN  IF end_dt <= start_dt THEN end_dt + 24 - start_dt
             ELSE end_dt - start_dt

\* Python truth value of ot_charge_per_hour: None and Decimal 0 are false
OtChargeGiven(ot_charge_per_hour) ==
    ot_charge_per_hour # {} /\ ot_charge_per_hour # {0}

\* values a caller assigns before save: basic_salary, the shift, and
\* either no change of ot_charge_per_hour or a manual value
ProfileAssignments ==
    [basic_salary : {0, 3040000, 6080000},
     shift : {<<9, 17>>, <<22, 6>>, <<9, 19>>},
     set_ot : BOOLEAN,
     ot_charge_per_hour : {{}, {0}, {5000}, {7500}}]

\* the instance as the caller leaves it before save
Assigned(self, a) ==
    [self EXCEPT !.basic_salary = a.basic_salary,
                 !.shift = a.shift,
                 !.ot_charge_per_hour = IF a.set_ot THEN a.ot_charge_per_hour ELSE @]

\* EmployeeProfile.save on the instance self
SavedProfile(self, today) ==
    LET shift_hours_per_day == CalculateShiftHours(self.shift, today)
    IN  [self EXCEPT
            !.ot_charge_per_hour =
                IF /\ ~OtChargeGiven(self.ot_charge_per_hour)
                   /\ self.shift # <<>>
                   /\ self.basic_salary # 0
                   /\ shift_hours_per_day > 0
                THEN {RoundDiv(self.basic_salary * 10,
                               shift_hours_per_day * StaticDaysTimes10)}
                ELSE @,
            !.given = self.ot_charge_per_hour,
            !.saves = 1]

save(a, today) ==
    /\ profile' = SavedProfile(Assigned(profile, a), today)
    /\ UNCHANGED <<payroll, mail, users, otps>>

InitProfile == InitPayrollEmpty /\ InitOthers

NextProfile == \E a \in ProfileAssignments, today \in TodayReads : save(a, today)

SpecProfile == InitProfile /\ [][NextProfile]_vars

\* C22 (the claim as stated): an ot_charge_per_hour that is set when save is
\* called, manually (0 included) or by an earlier save, is the
\* ot_charge_per_hour after the save; save only fills in a blank field.
C22_OtRateSticky ==
    profile.saves > 0 /\ profile.given # {} =>
        profile.ot_charge_per_hour = profile.given

(***************************************************************************)
(* The shift length computed by EmployeeProfile._calculate_shift_hours and *)
(* by the loop of calculate_simple_payroll, for every pair of times.  The  *)
(* calculation specification above uses ShiftHours, the case of both reads *)
(* of the date falling on one day.                                         *)
(***************************************************************************)
Hours == 0..23

\* shift_hours_per_day of calculate_simple_payroll
InlineShiftHours(shift, today) ==
    IF shift = <<>> THEN FallbackShiftHours
    ELSE LET start_dt == today[1] * 24 + shift[1]
             end_dt == today[2] * 24 + shift[2]
         IN  IF end_dt <= start_dt THEN (end_dt + 24) - start_dt
             ELSE end_dt - start_dt

\* a profile whose shift length has not been computed: helper and inline
\* hold the results once they are
ShiftRequest(shift) ==
    [op |-> "shift_hours", shift |-> shift, helper |-> {}, inline |-> {}]

\* employee._calculate_shift_hours() for the profile in calc
calculate_shift_hours(today) ==
    /\ calc.op = "shift_hours"
    /\ calc.helper = {}
    /\ calc' = [calc EXCEPT !.helper = {CalculateShiftHours(calc.shift, today)}]
    /\ UNCHANGED <<periods, salaries, advances, nextSalaryId, nextPeriodId, last, tx, cache, tenant, others>>

\* the shift length calculate_simple_payroll computes for the profile in calc
inline_shift_hours(today) ==
    /\ calc.op = "shift_hours"
    /\ calc.inline = {}
    /\ calc' = [calc EXCEPT !.inline = {InlineShiftHours(calc.shift, today)}]
    /\ UNCHANGED <<periods, salaries, advances, nextSalaryId, nextPeriodId, last, tx, cache, tenant, others>>

InitShift ==
    /\ periods = {NewPeriod(1, 2025, "JAN")}
    /\ salaries = {}
    /\ advances = {}
    /\ nextSalaryId = 1
    /\ nextPeriodId = 2
    /\ last = NoRequest
    /\ tx = NoTx
    /\ calc \in {ShiftRequest(<<s, e>>) : s \in Hours, e \in Hours}
    /\ cache = NoCache
    /\ tenant = NoTenant
    /\ InitOthers

NextShift ==
    \/ \E today \in TodayReads : calculate_shift_hours(today)
    \/ \E today \in TodayReads : inline_shift_hours(today)

SpecShift == InitShift /\ [][NextShift]_vars

\* the duration the claim gives for a shift
ExpectedShiftHours(shift) ==
    IF shift[2] > shift[1] THEN shift[2] - shift[1]
    ELSE shift[2] - shift[1] + 24

\* C23 (the claim as stated): for all shift_start_time and shift_end_time
\* the computed duration is end - start when end > start and end - start +
\* 24 h otherwise, so it is positive and at most 24 hours, and
\* _calculate_shift_hours and calculate_simple_payroll compute the same.
C23_ShiftDuration ==
    calc.op = "shift_hours" =>
        /\ \A h \in calc.helper \cup calc.inline :
              /\ h = ExpectedShiftHours(calc.shift)
              /\ h > 0 /\ h <= 24
        /\ \A h \in calc.helper : \A i \in calc.inline : h = i

(***************************************************************************)
(* Email rate limiting (services/email_rate_limiter.py).  A caller checks  *)
(* can_send_email, sends when the answer is True and then calls            *)
(* record_email_sent, whose cache.get and cache.set are separate steps.    *)
(* An address is a sequence of characters; the clock counts seconds and    *)
(* advances by half a window.                                              *)
(***************************************************************************)
EMAIL_RATE_LIMIT_COUNT == 3

EMAIL_RATE_LIMIT_WINDOW == 7200

\* the timeout of the cache entry: the window and 5 minutes
HistoryTimeout == EMAIL_RATE_LIMIT_WINDOW + 300

TickSeconds == EMAIL_RATE_LIMIT_WINDOW \div 2

\* the clock stops after this many ticks
MaxTicks == 2

\* emails sent in a behaviour
MaxSends == 4

\* str.lower() of one character
LowerChar(ch) == IF ch = "A" THEN "a" ELSE IF ch = "B" THEN "b" ELSE ch

RECURSIVE LStrip(_)
LStrip(str) == IF str # <<>> /\ Head(str) = " " THEN LStrip(Tail(str)) ELSE str

RECURSIVE RStrip(_)
RStrip(str) ==
    IF str # <<>> /\ str[Len(str)] = " " THEN RStrip(SubSeq(str, 1, Len(str) - 1))
    ELSE str

\* email_address.lower().strip()
NormalizeAddress(email_address) ==
    RStrip(LStrip([i \in 1..Len(email_address) |-> LowerChar(email_address[i])]))

\* the addresses callers pass: empty, and spellings of one address
AddressInputs == {<<>>, <<"a">>, <<" ", "A", " ">>}

\* cache.get(cache_key, []): an entry past its timeout is gone
HistoryGet(m, cache_key) ==
    IF \E e \in m.entries : e.key = cache_key /\ e.expires > m.now
    THEN (CHOOSE e \in m.entries : e.key = cache_key).history
    ELSE <<>>

\* cache.set(cache_key, send_history, timeout)
HistorySet(m, cache_key, send_history) ==
    {e \in m.entries : e.key # cache_key}
        \cup {[key |-> cache_key, history |-> send_history,
               expires |-> m.now + HistoryTimeout]}

\* the timestamps of the history after window_start
RecentSends(send_history, current_time) ==
    SelectSeq(send_history, LAMBDA timestamp :
                                timestamp > current_time - EMAIL_RATE_LIMIT_WINDOW)

MinOf(seq) == CHOOSE x \in Range(seq) : \A y \in Range(seq) : x <= y

\* can_send_email(email_address) at the state m of cache and clock:
\* <<can_send, time_remaining>>
CanSendEmail(m, email_address) ==
    IF email_address = <<>> THEN <<FALSE, 0>>
    ELSE LET recent_sends == RecentSends(HistoryGet(m, NormalizeAddress(email_address)),
                                         m.now)
         IN  IF Len(recent_sends) >= EMAIL_RATE_LIMIT_COUNT
             THEN <<FALSE, Max(0, (MinOf(recent_sends) + EMAIL_RATE_LIMIT_WINDOW) - m.now)>>
             ELSE <<TRUE, 0>>

\* the emails sent to the address of cache_key after the start of the
\* window that ends at time t
SentInWindow(m, cache_key, t) ==
    Len(SelectSeq(m.log, LAMBDA s : /\ s.key = cache_key
                                    /\ s.at > t - EMAIL_RATE_LIMIT_WINDOW
                                    /\ s.at <= t))

\* caller c asks whether it may send to email_address; on True it goes on
\* to send
can_send_email(c, email_address) ==
    /\ mail.pc[c].at = "idle"
    /\ \E r \in {CanSendEmail(mail, email_address)} :
          mail' = [mail EXCEPT !.pc[c] =
                      [at |-> IF r[1] THEN "send" ELSE "idle",
                       checked |-> TRUE,
                       email_address |-> email_address,
                       can_send |-> r[1],
                       time_remaining |-> r[2],
                       in_window |-> SentInWindow(mail,
                                        NormalizeAddress(email_address), mail.now)]]
    /\ UNCHANGED <<payroll, profile, users, otps>>

\* caller c sends the email it was allowed
send_email(c) ==
    /\ mail.pc[c].at = "send"
    /\ Len(mail.log) + Cardinality({d \in Conns : mail.pc[d].at = "record"}) < MaxSends
    /\ mail' = [mail EXCEPT
                   !.pc[c] = [at |-> "record", checked |-> FALSE,
                              email_address |-> mail.pc[c].email_address]]
    /\ UNCHANGED <<payroll, profile, users, otps>>

\* record_email_sent up to its cache.get: current_time and send_history are
\* local to the call; current_time is the time the send counts from, and
\* the log keeps it whatever becomes of the cache entry
record_email_sent_get(c) ==
    /\ mail.pc[c].at = "record"
    /\ mail' = [mail EXCEPT
                   !.log = Append(@, [key |-> NormalizeAddress(mail.pc[c].email_address),
                                      at |-> mail.now]),
                   !.pc[c] =
                   [@ EXCEPT !.at = "record_set"] @@
                   [current_time |-> mail.now,
                    send_history |->
                        HistoryGet(mail, NormalizeAddress(mail.pc[c].email_address))]]
    /\ UNCHANGED <<payroll, profile, users, otps>>

\* record_email_sent from the append to its cache.set
record_email_sent_set(c) ==
    /\ mail.pc[c].at = "record_set"
    /\ \E p \in {mail.pc[c]} :
          mail' = [mail EXCEPT
                      !.entries = HistorySet(mail, NormalizeAddress(p.email_address),
                                      RecentSends(Append(p.send_history, p.current_time),
                                                  p.current_time)),
                      !.pc[c] = [at |-> "idle", checked |-> FALSE]]
    /\ UNCHANGED <<payroll, profile, users, otps>>

\* time passes
tick ==
    /\ mail.now < MaxTicks * TickSeconds
    /\ mail' = [mail EXCEPT !.now = @ + TickSeconds]
    /\ UNCHANGED <<payroll, profile, users, otps>>

InitMail == InitPayrollEmpty /\ InitOthers

NextMail ==
    \/ \E c \in Conns, email_address \in AddressInputs : can_send_email(c, email_address)
    \/ \E c \in Conns : send_email(c)
    \/ \E c \in Conns : record_email_sent_get(c)
    \/ \E c \in Conns : record_email_sent_set(c)
    \/ tick

SpecMail == InitMail /\ [][NextMail]_vars

\* C24 (the claim as stated): callers that check, send and record, one
\* after the other or concurrently, send at most 3 emails to an address
\* (whatever its case and surrounding blanks) in any window of 7200
\* seconds, and can_send_email answers (False, t) with t > 0 exactly when 3
\* or more emails lie in the window that ends at the call.
C24_EmailRateLimit ==
    /\ \A i \in 1..Len(mail.log) :
          SentInWindow(mail, mail.log[i].key,
                       mail.log[i].at + EMAIL_RATE_LIMIT_WINDOW - 1)
              <= EMAIL_RATE_LIMIT_COUNT
    /\ \A c \in Conns :
          mail.pc[c].checked /\ mail.pc[c].email_address # <<>> =>
              ((~mail.pc[c].can_send /\ mail.pc[c].time_remaining > 0)
                  <=> mail.pc[c].in_window >= EMAIL_RATE_LIMIT_COUNT)

(***************************************************************************)
(* User management (views/auth.py): tenant signup, the two invitation      *)
(* views, invitation acceptance and the role change of                     *)
(* UserManagementViewSet.permissions.  A CustomUser row is its email, its  *)
(* tenant and its role.  The views that count the holders of a role and    *)
(* then write do so in two steps, with no transaction or lock in between.  *)
(***************************************************************************)
\* CustomUser rows in a behaviour
MaxUsers == 3

Emails == {"u1", "u2", "u3"}

Roles == {"admin", "hr_manager", "payroll_master"}

\* the roles of which a tenant may have one holder
SingleRoles == {"admin", "hr_manager"}

NewUser(email, tenant_id, role) == [email |-> email, tenant |-> tenant_id, role |-> role]

\* CustomUser.objects.filter(email=email).exists()
EmailExists(u, email) == \E r \in u.rows : r.email = email

\* CustomUser.objects.filter(tenant=tenant, role=role).count()
RoleCount(u, tenant_id, role) ==
    Cardinality({r \in u.rows : r.tenant = tenant_id /\ r.role = role})

\* the same count with .exclude(id=user.id)
RoleCountExcluding(u, tenant_id, role, email) ==
    Cardinality({r \in u.rows : r.tenant = tenant_id /\ r.role = role /\ r.email # email})

\* TenantSignupView.post: a new tenant and its admin user
tenant_signup(tenant_id, admin_email) ==
    /\ tenant_id \notin users.tenants
    /\ Cardinality(users.rows) < MaxUsers
    /\ ~EmailExists(users, admin_email)
    /\ users' = [users EXCEPT !.tenants = @ \cup {tenant_id},
                              !.rows = @ \cup {NewUser(admin_email, tenant_id, "admin")}]
    /\ UNCHANGED <<payroll, profile, mail, otps>>

\* the validation both invitation views run before they create the user:
\* the email is free and the role, when it is hr_manager or admin, has no
\* holder in the tenant of the inviting user
InvitationValid(u, tenant_id, email, role) ==
    /\ ~EmailExists(u, email)
    /\ role \in SingleRoles => RoleCount(u, tenant_id, role) < 1

\* UserInvitationViewSet.create up to the generation of the password
invitation_create_validate(c, tenant_id, email, role) ==
    /\ users.pc[c].at = "idle"
    /\ tenant_id \in users.tenants
    /\ InvitationValid(users, tenant_id, email, role)
    /\ users' = [users EXCEPT !.pc[c] =
                    [at |-> "create_user", view |-> "UserInvitationViewSet",
                     tenant |-> tenant_id, email |-> email, role |-> role]]
    /\ UNCHANGED <<payroll, profile, mail, otps>>

\* EnhancedInvitationView.post up to the generation of the password
enhanced_invitation_validate(c, tenant_id, email, role) ==
    /\ users.pc[c].at = "idle"
    /\ tenant_id \in users.tenants
    /\ InvitationValid(users, tenant_id, email, role)
    /\ users' = [users EXCEPT !.pc[c] =
                    [at |-> "create_user", view |-> "EnhancedInvitationView",
                     tenant |-> tenant_id, email |-> email, role |-> role]]
    /\ UNCHANGED <<payroll, profile, mail, otps>>

\* CustomUser.objects.create_user of either invitation view; the unique
\* email makes the insert fail when the email was taken meanwhile
invitation_create_user(c) ==
    /\ users.pc[c].at = "create_user"
    /\ \E p \in {users.pc[c]} :
          users' = [users EXCEPT
                       !.rows = IF EmailExists(users, p.email)
                                   \/ Cardinality(users.rows) >= MaxUsers
                                THEN @
                                ELSE @ \cup {NewUser(p.email, p.tenant, p.role)},
                       !.pc[c] = [at |-> "idle"]]
    /\ UNCHANGED <<payroll, profile, mail, otps>>

\* AcceptInvitationView.post with the token of an unused invitation
accept_invitation(token) ==
    /\ \E invitation \in users.tokens :
          /\ invitation.token = token
          /\ ~invitation.is_used
          /\ ~EmailExists(users, invitation.email)
          /\ Cardinality(users.rows) < MaxUsers
          /\ users' = [users EXCEPT
                          !.rows = @ \cup {NewUser(invitation.email, invitation.tenant,
                                                   invitation.role)},
                          !.tokens = (@ \ {invitation})
                                        \cup {[invitation EXCEPT !.is_used = TRUE]}]
    /\ UNCHANGED <<payroll, profile, mail, otps>>

\* UserManagementViewSet.permissions with a role, up to the validation
permissions_validate(c, email, role) ==
    /\ users.pc[c].at = "idle"
    /\ \E user \in users.rows :
          /\ user.email = email
          /\ (role \in SingleRoles /\ user.role # role)
                => RoleCountExcluding(users, user.tenant, role, email) < 1
          /\ users' = [users EXCEPT !.pc[c] =
                          [at |-> "save", email |-> email, role |-> role]]
    /\ UNCHANGED <<payroll, profile, mail, otps>>

\* user.role = role; user.save()
permissions_save(c) ==
    /\ users.pc[c].at = "save"
    /\ \E p \in {users.pc[c]} :
          users' = [users EXCEPT
                       !.rows = {IF r.email = p.email THEN [r EXCEPT !.role = p.role]
                                 ELSE r : r \in @},
                       !.pc[c] = [at |-> "idle"]]
    /\ UNCHANGED <<payroll, profile, mail, otps>>

\* tenant TA after its signup, and one unused invitation to it issued while
\* it had no HR manager
InitUsers ==
    /\ InitPayrollEmpty
    /\ profile = NoProfile
    /\ mail = NoMail
    /\ otps = NoOtps
    /\ users = [NoUsers EXCEPT
                   !.tenants = {"TA"},
                   !.rows = {NewUser("u1", "TA", "admin")},
                   !.tokens = {[token |-> "k1", email |-> "u3", tenant |-> "TA",
                                role |-> "hr_manager", is_used |-> FALSE]}]

NextUsers ==
    \/ \E t \in Tenants, e \in Emails : tenant_signup(t, e)
    \/ \E c \in Conns, t \in Tenants, e \in Emails, r \in Roles :
          invitation_create_validate(c, t, e, r)
    \/ \E c \in Conns, t \in Tenants, e \in Emails, r \in Roles :
          enhanced_invitation_validate(c, t, e, r)
    \/ \E c \in Conns : invitation_create_user(c)
    \/ \E token \in {"k1"} : accept_invitation(token)
    \/ \E c \in Conns, e \in Emails, r \in Roles : permissions_validate(c, e, r)
    \/ \E c \in Conns : permissions_save(c)

SpecUsers == InitUsers /\ [][NextUsers]_vars

\* C25 (the claim as stated): whatever the order and interleaving of
\* signups, invitations, acceptances and role changes, a tenant has at most
\* one user with role hr_manager and at most one with role admin.
C25_SingleRoleHolders ==
    \A t \in Tenants, role \in SingleRoles : RoleCount(users, t, role) <= 1

(***************************************************************************)
(* Password reset by OTP (views/auth.py).  A PasswordResetOTP row carries, *)
(* besides its fields, whether VerifyOTPView has accepted it and how often *)
(* a reset has used it; passwords maps the email of each user to the       *)
(* current password.                                                       *)
(***************************************************************************)
\* PasswordResetOTP rows created in a behaviour
MaxOtps == 3

\* the clock of the OTP expiry stops here
MaxNow == 2

\* settings.OTP_EXPIRY_MINUTES, in ticks of the clock
OtpExpiry == 1

OtpCodes == {"111111", "222222"}

Passwords == {"old", "new1", "new2"}

\* the users that exist
ResetEmails == {"u1", "u2"}

\* otp_record.is_expired()
IsExpired(otp_record, now) == now > otp_record.expires_at

\* RequestPasswordResetView.post: the unused OTPs of the email are deleted
\* and a new one is created; it is deleted again when the email cannot be
\* sent
request_password_reset(email, otp_code, email_sent) ==
    /\ email \in DOMAIN otps.passwords
    /\ otps.nextId <= MaxOtps
    /\ \E kept \in {{r \in otps.rows : ~(r.email = email /\ ~r.is_used)}} :
          otps' = [otps EXCEPT
                      !.rows = IF email_sent
                               THEN kept \cup {[id |-> otps.nextId, email |-> email,
                                                otp_code |-> otp_code, is_used |-> FALSE,
                                                expires_at |-> otps.now + OtpExpiry,
                                                verified |-> FALSE, resets |-> 0]}
                               ELSE kept,
                      !.nextId = @ + 1]
    /\ UNCHANGED <<payroll, profile, mail, users>>

\* VerifyOTPView.post answering 200 with reset_token = otp_record.id
verify_otp(email, otp_code) ==
    /\ \E otp_record \in otps.rows :
          /\ otp_record.email = email
          /\ otp_record.otp_code = otp_code
          /\ ~otp_record.is_used
          /\ ~IsExpired(otp_record, otps.now)
          /\ otps' = [otps EXCEPT !.rows = (@ \ {otp_record})
                                  \cup {[otp_record EXCEPT !.verified = TRUE]}]
    /\ UNCHANGED <<payroll, profile, mail, users>>

\* ResetPasswordView.post answering 200
reset_password(reset_token, email, new_password) ==
    /\ \E otp_record \in otps.rows :
          /\ otp_record.id = reset_token
          /\ otp_record.email = email
          /\ ~otp_record.is_used
          /\ ~IsExpired(otp_record, otps.now)
          /\ email \in DOMAIN otps.passwords
          /\ otps' = [otps EXCEPT
                         !.passwords[email] = new_password,
                         !.rows = (@ \ {otp_record})
                                     \cup {[otp_record EXCEPT !.is_used = TRUE,
                                                              !.resets = @ + 1]}]
    /\ UNCHANGED <<payroll, profile, mail, users>>

\* time passes
otp_tick ==
    /\ otps.now < MaxNow
    /\ otps' = [otps EXCEPT !.now = @ + 1]
    /\ UNCHANGED <<payroll, profile, mail, users>>

InitOtps ==
    /\ InitPayrollEmpty
    /\ profile = NoProfile
    /\ mail = NoMail
    /\ users = NoUsers
    /\ otps = [NoOtps EXCEPT !.passwords = [e \in ResetEmails |-> "old"]]

NextOtps ==
    \/ \E e \in ResetEmails, code \in OtpCodes, sent \in BOOLEAN :
          request_password_reset(e, code, sent)
    \/ \E e \in ResetEmails, code \in OtpCodes : verify_otp(e, code)
    \/ \E t \in 1..MaxOtps, e \in ResetEmails, p \in Passwords : reset_password(t, e, p)
    \/ otp_tick

SpecOtps == InitOtps /\ [][NextOtps]_vars

\* C26 (the claim as stated): a password is reset only through an OTP
\* record of the email that VerifyOTPView has accepted for the correct
\* code, a record serves one reset only, and an email has at most one
\* unused OTP record.
C26_ResetNeedsVerifiedOtp ==
    /\ \A r \in otps.rows : r.resets > 0 => r.verified
    /\ \A r \in otps.rows : r.resets <= 1 /\ (r.resets = 1 <=> r.is_used)
    /\ \A e \in ResetEmails :
          Cardinality({r \in otps.rows : r.email = e /\ ~r.is_used}) <= 1
    /\ \A e \in ResetEmails :
          otps.passwords[e] # "old" =>
              \E r \in otps.rows : r.email = e /\ r.is_used /\ r.verified

(***************************************************************************)
(* Two concurrent mark_salary_paid requests that mark salaries paid, under *)
(* READ COMMITTED: a statement reads the committed rows, a bulk_update     *)
(* takes the row locks of the rows it writes and waits while another open  *)
(* transaction holds one of them, and the writes of a transaction become   *)
(* visible when it commits.  No statement of the view locks the rows it    *)
(* reads.                                                                  *)
(***************************************************************************)
PaidIdle ==
    [pc |-> "idle", salary_ids |-> {}, deductions |-> [e \in Employees |-> 0],
     changed |-> {}, locked |-> {}]

\* the request of c enters the transaction, selects its salaries and
\* bulk-updates them as paid
paid_mark(c, salary_ids) ==
    /\ tx[c].pc = "idle"
    /\ SelectSalaries(salaries, salary_ids) # {}
    /\ tx[Other(c)].pc \in {"idle", "done"} \/ tx[Other(c)].salary_ids \cap salary_ids = {}
    /\ tx' = [tx EXCEPT ![c] =
                 [PaidIdle EXCEPT
                     !.pc = "read_advances",
                     !.salary_ids = {s.id : s \in SelectSalaries(salaries, salary_ids)},
                     !.deductions = EmployeeAdvanceDeductions(
                                        SelectSalaries(salaries, salary_ids), TRUE)]]
    /\ UNCHANGED <<periods, salaries, advances, nextSalaryId, nextPeriodId, last, calc, cache, tenant, others>>

\* the all_advances query and the repayment loop over its rows
paid_read_advances(c) ==
    /\ tx[c].pc = "read_advances"
    /\ \E ordered \in AdvanceOrderings(
              OpenAdvances(advances, {e \in Employees : tx[c].deductions[e] > 0})) :
          tx' = [tx EXCEPT ![c].pc = "update_advances",
                           ![c].changed =
                               UNION {RepayLoop(SelectEmp(ordered, e), tx[c].deductions[e]) :
                                      e \in {x \in Employees : tx[c].deductions[x] > 0}}]
    /\ UNCHANGED <<periods, salaries, advances, nextSalaryId, nextPeriodId, last, calc, cache, tenant, others>>

\* the two AdvanceLedger bulk_update calls: they wait for the row locks
paid_update_advances(c) ==
    /\ tx[c].pc = "update_advances"
    /\ {a.id : a \in tx[c].changed} \cap tx[Other(c)].locked = {}
    /\ tx' = [tx EXCEPT ![c].pc = "commit",
                        ![c].locked = {a.id : a \in tx[c].changed}]
    /\ UNCHANGED <<periods, salaries, advances, nextSalaryId, nextPeriodId, last, calc, cache, tenant, others>>

\* the transaction commits and the response is sent
paid_commit(c) ==
    /\ tx[c].pc = "commit"
    /\ salaries' = MarkRows(salaries, SelectSalaries(salaries, tx[c].salary_ids), TRUE, Today)
    /\ advances' = BulkUpdateAdvances(advances, tx[c].changed)
    /\ cache' = InvalidatePayrollCaches(cache)
    /\ tx' = [tx EXCEPT ![c].pc = "done", ![c].locked = {}]
    /\ last' = [NoRequest EXCEPT !.op = "mark_salary_paid", !.status = 200,
                                 !.mark_as_paid = TRUE,
                                 !.deductions = tx[c].deductions]
    /\ UNCHANGED <<periods, nextSalaryId, nextPeriodId, calc, tenant, others>>

\* the database of Init, all advances pending, and two idle connections
InitPaid ==
    /\ periods = {NewPeriod(1, 2025, "JAN"), NewPeriod(2, 2025, "FEB")}
    /\ salaries = {CreatedRow(1, 1, Entry("E1", 1000, 100, 20, 50, 120, 910, FALSE)),
                   CreatedRow(2, 1, Entry("E2", 800, 0, 0, 0, 0, 800, FALSE)),
                   CreatedRow(3, 2, Entry("E1", 900, 0, 0, 0, 50, 850, FALSE))}
    /\ advances \in InitialLedgers
    /\ nextSalaryId = 4
    /\ nextPeriodId = 3
    /\ last = NoRequest
    /\ tx = [c \in Conns |-> PaidIdle]
    /\ calc = NoCalc
    /\ cache = NoCache
    /\ tenant = NoTenant
    /\ InitOthers

NextPaid ==
    \E c \in Conns :
        \/ \E salary_ids \in SUBSET {1, 2, 3} : paid_mark(c, salary_ids)
        \/ paid_read_advances(c)
        \/ paid_update_advances(c)
        \/ paid_commit(c)

SpecPaid == InitPaid /\ [][NextPaid]_vars

\* the open balance of e before any request: every advance is pending
InitialOpenBalance(e) ==
    LET S == {a \in advances : a.employee_id = e}
    IN  SumOver(S, [a \in S |-> a.amount])

\* C29 (the claim as stated): when two concurrent mark_salary_paid requests
\* deducting D1 and D2 from the ledger of an employee have both committed,
\* the employee's open balance O has decreased by min(D1 + D2, O), as if
\* the requests had run one after the other.
C29_NoLostLedgerUpdate ==
    (\A c \in Conns : tx[c].pc = "done") =>
        \A e \in Employees :
            TotalAdvanceBalance(advances, e)
                = InitialOpenBalance(e)
                  - Min(tx["A"].deductions[e] + tx["B"].deductions[e],
                        InitialOpenBalance(e))

(***************************************************************************)
(* payroll_overview step by step (cache.get, the aggregate queries,        *)
(* cache.set) next to the operations that change what it shows.  The cache *)
(* record carries the cached response in overview; calc holds the          *)
(* position and the response_data of the overview request of each          *)
(* connection.                                                             *)
(***************************************************************************)
\* datetime.now().strftime('%B').upper() and .year
CurrentMonth == "FEBRUARY"
CurrentYear == 2025

OverviewIdle == [at |-> "idle", response_data |-> {}]

\* the periods of response_data: per period its id, whether it is locked
\* and the aggregates total_employees and paid_employees
OverviewOf(ps, rows) ==
    {[id |-> p.id, is_locked |-> p.is_locked,
      total_employees |-> Cardinality({s \in rows : s.payroll_period = p.id}),
      paid_employees |-> Cardinality({s \in rows : s.payroll_period = p.id /\ s.is_paid})] :
        p \in ps}

\* payroll_overview up to the answer from the cache or the miss
overview_get(c, no_cache) ==
    /\ calc.pc[c].at = "idle"
    /\ calc' = [calc EXCEPT !.pc[c].at =
                   IF ~no_cache /\ "payroll_overview" \in cache.keys THEN "idle"
                   ELSE "compute"]
    /\ UNCHANGED <<periods, salaries, advances, nextSalaryId, nextPeriodId, last, tx, cache, tenant, others>>

\* the queries that build response_data
overview_compute(c) ==
    /\ calc.pc[c].at = "compute"
    /\ calc' = [calc EXCEPT !.pc[c] = [at |-> "set",
                                       response_data |-> OverviewOf(periods, salaries)]]
    /\ UNCHANGED <<periods, salaries, advances, nextSalaryId, nextPeriodId, last, tx, cache, tenant, others>>

\* cache.set(cache_key, response_data, 900) and the response
overview_set(c) ==
    /\ calc.pc[c].at = "set"
    /\ cache' = [cache EXCEPT !.keys = @ \cup {"payroll_overview"},
                              !.overview = calc.pc[c].response_data]
    /\ calc' = [calc EXCEPT !.pc[c] = OverviewIdle]
    /\ UNCHANGED <<periods, salaries, advances, nextSalaryId, nextPeriodId, last, tx, tenant, others>>

\* the 900 seconds of the entry have passed
overview_expires ==
    /\ "payroll_overview" \in cache.keys
    /\ cache' = [cache EXCEPT !.keys = @ \ {"payroll_overview"}, !.overview = {}]
    /\ UNCHANGED <<periods, salaries, advances, nextSalaryId, nextPeriodId, last, tx, calc, tenant, others>>

\* create_current_month_payroll
create_current_month_payroll ==
    /\ \E current_month_normalized \in {NormalizeMonthToShort(CurrentMonth)} :
          IF \E p \in periods : /\ p.year = CurrentYear
                                /\ p.month \in {current_month_normalized, CurrentMonth}
          THEN /\ last' = [NoRequest EXCEPT !.op = "create_current_month_payroll",
                                            !.status = 400]
               /\ UNCHANGED <<periods, nextPeriodId>>
          ELSE /\ periods' = periods \cup {NewPeriod(nextPeriodId, CurrentYear,
                                                     current_month_normalized)}
               /\ nextPeriodId' = nextPeriodId + 1
               /\ last' = [NoRequest EXCEPT !.op = "create_current_month_payroll",
                                            !.status = 200, !.period = nextPeriodId]
    /\ UNCHANGED <<salaries, advances, nextSalaryId, tx, calc, cache, tenant, others>>

\* the database after JAN was saved for E1 and E2; nothing cached
InitOverview ==
    /\ periods = {NewPeriod(1, 2025, "JAN")}
    /\ salaries = {CreatedRow(1, 1, Entry("E1", 1000, 100, 20, 50, 120, 910, FALSE)),
                   CreatedRow(2, 1, Entry("E2", 800, 0, 0, 0, 0, 800, FALSE))}
    /\ advances = {}
    /\ nextSalaryId = 3
    /\ nextPeriodId = 2
    /\ last = NoRequest
    /\ tx = NoTx
    /\ calc = [op |-> "payroll_overview", pc |-> [c \in Conns |-> OverviewIdle]]
    /\ cache = NoCache @@ [overview |-> {}]
    /\ tenant = NoTenant
    /\ InitOthers

NextOverview ==
    \/ \E c \in Conns, no_cache \in BOOLEAN : overview_get(c, no_cache)
    \/ \E c \in Conns : overview_compute(c)
    \/ \E c \in Conns : overview_set(c)
    \/ overview_expires
    \/ create_current_month_payroll
    \/ \E salary_ids \in {{1}, {2}}, mark_as_paid \in BOOLEAN :
          mark_salary_paid(salary_ids, NoDate, mark_as_paid)
    \/ \E period_id \in {1, 2} : lock_payroll_period(period_id)

SpecOverview == InitOverview /\ [][NextOverview]_vars

\* C30 (the claim as stated): with every mutation and its invalidation
\* completed, the overview the cache holds, which is what a request
\* without no_cache is answered with, is the overview of the rows as they
\* are; the cache holds no overview computed before a mutation.
C30_OverviewCoherent ==
    "payroll_overview" \in cache.keys => cache.overview = OverviewOf(periods, salaries)

====
